---------------------------- MODULE Spec2Model ----------------------------
(***************************************************************************)
(* Model of the TypeRacer analytics backend (src/backend).                 *)
(*                                                                         *)
(*   insights.py  the Insight Engine: calculate_insights_with_fallback,    *)
(*                the dispatcher calculate_chart_insights and the per-view *)
(*                routines;                                                *)
(*   main.py      the HTTP service around the process-wide df_global.      *)
(*                                                                         *)
(* Representation.  A dataset (polars DataFrame) is a sequence of rows, a  *)
(* row a record with the columns process_race_data produces.  Numbers are  *)
(* integers: wpm in whole words per minute, accuracy in thousandths        *)
(* (0.93 is 930), datetime_utc in seconds since 2024-01-01 00:00:00.  A    *)
(* mean is carried exactly, as the pair sum, count; a variance as the pair *)
(* numerator, denominator.  A sentence is the record [text, args]: the     *)
(* f-string's fixed text and the values it interpolates, in order, with a  *)
(* mean or variance taking two places of args.                             *)
(***************************************************************************)
EXTENDS Integers, Sequences, FiniteSets, TLC

VARIABLES
    df,          \* the DataFrame object passed to calculate_insights_with_fallback
    df_entry,    \* its contents when the call was made
    chart_type,  \* the view identifier passed
    call_pc,     \* "ready" before the call, "returned" after, "escaped" if an exception left it
    result,      \* <<>> or <<the dict returned>>
    ran,         \* <<>> or <<[routine, path]>>: the per-view routine the call ran and its branch
    df_global,   \* main.py: <<>> for None, <<dataset>> once loaded
    client_pc,   \* per client: "idle" or "reading" (suspended at `await file.read()`)
    pending,     \* per client: the file of the upload being read
    supplied,    \* per client: <<>> or <<the dataset that client last loaded>>
    loaded_ok,   \* history: whether a load request has been answered with 200
    response     \* per client: <<>> or <<the last response it received>>

vars == <<df, df_entry, chart_type, call_pc, result, ran,
          df_global, client_pc, pending, supplied, loaded_ok, response>>

engineVars == <<df, df_entry, chart_type, call_pc, result, ran>>
serviceVars == <<df_global, client_pc, pending, supplied, loaded_ok, response>>

-----------------------------------------------------------------------------
(* Arithmetic and sequence helpers (the dataframe library's primitives).   *)

Max2(a, b) == IF a >= b THEN a ELSE b
Min2(a, b) == IF a <= b THEN a ELSE b

\* Sum of s[lo..hi], by halves
RECURSIVE SumRange(_, _, _)
SumRange(s, lo, hi) ==
    IF hi < lo THEN 0
    ELSE IF hi = lo THEN s[lo]
    ELSE SumRange(s, lo, (lo + hi) \div 2) + SumRange(s, (lo + hi) \div 2 + 1, hi)

\* Series.sum()
SumSeq(s) == SumRange(s, 1, Len(s))

\* df[col] as a sequence
Column(d, col) == [i \in 1..Len(d) |-> d[i][col]]

\* DataFrame.filter: the rows satisfying P, in order
RECURSIVE FilterTo(_, _, _)
FilterTo(d, P(_), i) ==
    IF i = 0 THEN <<>>
    ELSE IF P(d[i]) THEN Append(FilterTo(d, P, i - 1), d[i])
         ELSE FilterTo(d, P, i - 1)
Filter(d, P(_)) == FilterTo(d, P, Len(d))

\* tail(k) taking the first k rows instead of the last
TailRowsFromTop(d, k) == SubSeq(d, 1, Min2(k, Len(d)))

\* DataFrame.head(k) / tail(k)
HeadRows(d, k) == SubSeq(d, 1, Min2(k, Len(d)))
TailRows(d, k) == SubSeq(d, Len(d) - Min2(k, Len(d)) + 1, Len(d))

\* Rank of position i under a stable ascending sort of keys
SortRank(keys, i) ==
    Cardinality({j \in 1..Len(keys) :
                    keys[j] < keys[i] \/ (keys[j] = keys[i] /\ j < i)}) + 1

\* DataFrame.sort(col): a new frame, stable, ascending
SortBy(d, col) ==
    LET keys == Column(d, col)
        at == [p \in 1..Len(d) |-> CHOOSE i \in 1..Len(d) : SortRank(keys, i) = p]
    IN  [p \in 1..Len(d) |-> d[at[p]]]

\* The elements of a finite set of integers, ascending
RECURSIVE SortedSeqOf(_)
SortedSeqOf(S) ==
    IF S = {} THEN <<>>
    ELSE LET m == CHOOSE x \in S : \A y \in S : x <= y
         IN  <<m>> \o SortedSeqOf(S \ {m})

\* a/b compared with c/d, b and d positive
RatLess(a, b, c, d) == a * d < c * b
RatEq(a, b, c, d) == a * d = c * b

-----------------------------------------------------------------------------
(* The canonical dataset: process_race_data (main.py).                     *)

SecondsPerDay == 86400
SecondsPerHour == 3600

\* Day-of-year (0-based) on which each month of 2024 starts; timestamps of the
\* model lie in 2024.
MonthStarts == <<0, 31, 60, 91, 121, 152, 182, 213, 244, 274, 305, 335>>

\* dt.date(): days since 2024-01-01
DateOf(t) == t \div SecondsPerDay
\* dt.hour()
HourOf(t) == (t % SecondsPerDay) \div SecondsPerHour
\* dt.truncate("1mo"): the first day of the timestamp's month
YearMonthOf(t) ==
    LET day == DateOf(t)
        m == CHOOSE k \in 1..12 :
                /\ MonthStarts[k] <= day
                /\ (k = 12 \/ day < MonthStarts[k + 1])
    IN  MonthStarts[m]
\* dt.weekday(): Monday = 1; 2024-01-01 was a Monday
WeekdayOf(t) == (DateOf(t) % 7) + 1

\* One row of the CSV, columns already under their canonical names
RawRow(race_num, wpm, accuracy, rank, num_racers, text_id, t) ==
    [race_num |-> race_num, wpm |-> wpm, accuracy |-> accuracy, rank |-> rank,
     num_racers |-> num_racers, text_id |-> text_id, datetime_utc |-> t]

\* The columns process_race_data adds to a row
ProcessRow(r) ==
    [race_num |-> r.race_num, wpm |-> r.wpm, accuracy |-> r.accuracy,
     rank |-> r.rank, num_racers |-> r.num_racers, text_id |-> r.text_id,
     datetime_utc |-> r.datetime_utc,
     year_month |-> YearMonthOf(r.datetime_utc),
     date |-> DateOf(r.datetime_utc),
     hour |-> HourOf(r.datetime_utc),
     day_of_week |-> WeekdayOf(r.datetime_utc),
     win |-> IF r.rank = 1 THEN 1 ELSE 0]

process_race_data(raw) ==
    SortBy([i \in 1..Len(raw) |-> ProcessRow(raw[i])], "race_num")

-----------------------------------------------------------------------------
(* group_by(col).agg(...).sort(col): one entry per distinct key, ascending. *)

RowsWith(d, col, key) == Filter(d, LAMBDA r : r[col] = key)

GroupBy(d, col) ==
    LET keys == SortedSeqOf({d[i][col] : i \in 1..Len(d)})
    IN  [g \in 1..Len(keys) |-> [key |-> keys[g], rows |-> RowsWith(d, col, keys[g])]]

\* pl.col(c).mean() of a group: <<sum, count>>
MeanOf(rows, col) == <<SumSeq(Column(rows, col)), Len(rows)>>

\* Sample variance (ddof = 1) of integers xs, as <<numerator, denominator>>;
\* the library returns null when there are fewer than 2 values.
SumSq(xs) == SumSeq([i \in 1..Len(xs) |-> xs[i] * xs[i]])
VarDefined(xs) == Len(xs) >= 2
VarOf(xs) ==
    <<Len(xs) * SumSq(xs) - SumSeq(xs) * SumSeq(xs), Len(xs) * (Len(xs) - 1)>>

\* Sample variance of the rationals ms[i] = <<num, den>>, over the common
\* denominator D = product of the dens.
RECURSIVE ProdDen(_, _)
ProdDen(ms, i) == IF i = 0 THEN 1 ELSE ms[i][2] * ProdDen(ms, i - 1)
VarOfMeans(ms) ==
    LET D == ProdDen(ms, Len(ms))
        xs == [i \in 1..Len(ms) |-> ms[i][1] * (D \div ms[i][2])]
        v == VarOf(xs)
    IN  <<v[1], v[2] * D * D>>

\* Series.arg_max() / arg_min() over rationals: the first index of the extreme
ArgMaxRat(ms) ==
    CHOOSE i \in 1..Len(ms) :
        /\ \A j \in 1..Len(ms) : ~RatLess(ms[i][1], ms[i][2], ms[j][1], ms[j][2])
        /\ \A j \in 1..(i - 1) : RatLess(ms[j][1], ms[j][2], ms[i][1], ms[i][2])
ArgMinRat(ms) ==
    CHOOSE i \in 1..Len(ms) :
        /\ \A j \in 1..Len(ms) : ~RatLess(ms[j][1], ms[j][2], ms[i][1], ms[i][2])
        /\ \A j \in 1..(i - 1) : RatLess(ms[i][1], ms[i][2], ms[j][1], ms[j][2])
\* arg_max returning the last index of the maximum
ArgMaxIntLast(xs) ==
    CHOOSE i \in 1..Len(xs) :
        /\ \A j \in 1..Len(xs) : xs[j] <= xs[i]
        /\ \A j \in (i + 1)..Len(xs) : xs[j] < xs[i]
\* over integers
ArgMaxInt(xs) ==
    CHOOSE i \in 1..Len(xs) :
        /\ \A j \in 1..Len(xs) : xs[j] <= xs[i]
        /\ \A j \in 1..(i - 1) : xs[j] < xs[i]
ArgMinInt(xs) ==
    CHOOSE i \in 1..Len(xs) :
        /\ \A j \in 1..Len(xs) : xs[j] >= xs[i]
        /\ \A j \in 1..(i - 1) : xs[j] > xs[i]

Abs(x) == IF x < 0 THEN -x ELSE x

-----------------------------------------------------------------------------
(* Sentences and routine outcomes.                                         *)

\* One f-string: its fixed text and the values interpolated into it
S(text, args) == [text |-> text, args |-> args]

\* A routine that returned its list.  path names the branch it took.
Returned(routine, path, insights) ==
    [raised |-> FALSE, insights |-> insights, routine |-> routine, path |-> path]

\* A routine that raised while building its list; insights holds the sentences
\* it had already built when the exception was thrown.
Raised(routine, path, partial) ==
    [raised |-> TRUE, insights |-> partial, routine |-> routine, path |-> path]

-----------------------------------------------------------------------------
(* performance-over-time                                                   *)

\* `if len(monthly_avg) < 2` and `if len(monthly_wins) < 2`, on the number k
\* of distinct year_month values
TooFewMonthsOffByOne(k) == k < 1

TooFewMonths(k) == k < 2

NeedMonthsPerformance ==
    <<S("Need at least 2 months of data", <<>>), S("Current month shown", <<>>),
      S("Keep racing for trends", <<>>), S("Upload more race data", <<>>),
      S("Monthly trends coming soon", <<>>),
      S("Practice consistently for insights", <<>>)>>

\* Series.arg_min() over a column with nulls (a month of one race has a null
\* std_wpm): nulls are skipped, and the answer is None (0 here) when every
\* value is null.  vs[g] is the variance pair, defined[g] whether it is non-null.
ArgMinVarSkippingNulls(vs, defined) ==
    IF \A g \in 1..Len(vs) : ~defined[g] THEN 0
    ELSE CHOOSE i \in 1..Len(vs) :
            /\ defined[i]
            /\ \A j \in 1..Len(vs) :
                  defined[j] => ~RatLess(vs[j][1], vs[j][2], vs[i][1], vs[i][2])
            /\ \A j \in 1..(i - 1) :
                  defined[j] => RatLess(vs[i][1], vs[i][2], vs[j][1], vs[j][2])

calculate_performance_over_time_insights(d) ==
    LET name == "performance-over-time"
        monthly_avg == GroupBy(d, "year_month")
        k == Len(monthly_avg)
        avg_wpm == [g \in 1..k |-> MeanOf(monthly_avg[g].rows, "wpm")]
        std_ok == [g \in 1..k |-> VarDefined(monthly_avg[g].rows)]
        var_wpm == [g \in 1..k |->
                      IF std_ok[g] THEN VarOf(Column(monthly_avg[g].rows, "wpm"))
                      ELSE <<0, 1>>]
        race_count == [g \in 1..k |-> Len(monthly_avg[g].rows)]
        first == avg_wpm[1]
        last == avg_wpm[k]
        best == ArgMaxRat(avg_wpm)
        worst == ArgMinRat(avg_wpm)
        consistent == ArgMinVarSkippingNulls(var_wpm, std_ok)
        active == ArgMaxInt(race_count)
        \* (last - first) / first * 100 = 100 * diff / base
        diff == last[1] * first[2] - first[1] * last[2]
        base == first[1] * last[2]
        direction == IF diff > 0 THEN "Overall improvement: Improved {}% since you started"
                     ELSE IF diff < 0 THEN "Overall improvement: Declined {}% since you started"
                     ELSE "Overall improvement: Stable {}% since you started"
    IN  IF TooFewMonths(k) THEN Returned(name, "need_more", NeedMonthsPerformance)
        \* monthly_avg[None, "year_month"]: indexing by None raises
        ELSE IF consistent = 0 THEN Raised(name, "computed", <<>>)
        \* float division by a zero first-month average
        ELSE IF first[1] = 0 THEN Raised(name, "computed", <<>>)
        ELSE Returned(name, "computed",
               <<S("Speed trend: {} -> {} WPM over time",
                   <<first[1], first[2], last[1], last[2]>>),
                 S(direction, <<100 * Abs(diff), base>>),
                 S("Best month: {} ({} WPM average)",
                   <<monthly_avg[best].key, avg_wpm[best][1], avg_wpm[best][2]>>),
                 S("Toughest month: {} ({} WPM average)",
                   <<monthly_avg[worst].key, avg_wpm[worst][1], avg_wpm[worst][2]>>),
                 S("Most consistent month: {} (+-{} WPM variation)",
                   <<monthly_avg[consistent].key,
                     var_wpm[consistent][1], var_wpm[consistent][2]>>),
                 S("Most active month: {} ({} races completed)",
                   <<monthly_avg[active].key, race_count[active]>>)>>)

-----------------------------------------------------------------------------
(* win-rate-monthly                                                        *)

NeedMonthsWinRate ==
    <<S("Need multiple months", <<>>), S("Current month shown", <<>>),
      S("Keep racing for trends", <<>>), S("Upload more race data", <<>>),
      S("Monthly trends coming soon", <<>>), S("Practice consistently", <<>>)>>

\* The streak loop recording a run only when a loss ends it
WinStreakStepOnLoss(st, win) ==
    IF win # 0 THEN <<st[1] + 1, st[2]>>
    ELSE <<0, Max2(st[2], st[1])>>

\* One iteration of the streak loop (lines 377-382) on the pair
\* <<current_streak, max_win_streak>>
WinStreakStep(st, win) ==
    IF win # 0 THEN <<st[1] + 1, Max2(st[2], st[1] + 1)>>
    ELSE <<0, st[2]>>

\* The loop over the first i entries of wins, from <<0, 0>>
RECURSIVE WinStreakScan(_, _)
WinStreakScan(wins, i) ==
    IF i = 0 THEN <<0, 0>> ELSE WinStreakStep(WinStreakScan(wins, i - 1), wins[i])

\* max_win_streak after the loop over df.sort("race_num")["win"]
MaxWinStreak(d) ==
    LET wins == Column(SortBy(d, "race_num"), "win")
    IN  WinStreakScan(wins, Len(wins))[2]

calculate_win_rate_monthly_insights(d) ==
    LET name == "win-rate-monthly"
        monthly_wins == GroupBy(d, "year_month")
        k == Len(monthly_wins)
        win_rate == [g \in 1..k |-> MeanOf(monthly_wins[g].rows, "win")]
        overall == MeanOf(d, "win")
        best == ArgMaxRat(win_rate)
        worst == ArgMinRat(win_rate)
        max_win_streak == MaxWinStreak(d)
        wins_with_90_plus == Len(Filter(d, LAMBDA r : r.win = 1 /\ r.wpm >= 90))
        total_wins == Len(Filter(d, LAMBDA r : r.win = 1))
        win_performance_rate == IF total_wins > 0
                                THEN <<100 * wins_with_90_plus, total_wins>>
                                ELSE <<0, 1>>
    IN  IF TooFewMonths(k) THEN Returned(name, "need_more", NeedMonthsWinRate)
        ELSE Returned(name, "computed",
               <<S("Overall win rate: {}% of all races", <<100 * overall[1], overall[2]>>),
                 S("Best winning month: {} ({}% win rate)",
                   <<monthly_wins[best].key, 100 * win_rate[best][1], win_rate[best][2]>>),
                 S("Toughest competition month: {} ({}% wins)",
                   <<monthly_wins[worst].key, 100 * win_rate[worst][1], win_rate[worst][2]>>),
                 S("Win streak record: {} consecutive victories", <<max_win_streak>>),
                 S("Wins often follow 90+ WPM performances ({}% of wins)",
                   win_performance_rate),
                 S("Higher win rate in races with 3-4 opponents vs 5+", <<>>)>>)

-----------------------------------------------------------------------------
(* daily-performance                                                       *)

\* Series.mean() of a column of group means ms[i] = <<num, den>>
MeanOfMeans(ms) ==
    LET D == ProdDen(ms, Len(ms))
    IN  <<SumSeq([i \in 1..Len(ms) |-> ms[i][1] * (D \div ms[i][2])]), Len(ms) * D>>

calculate_daily_performance_insights(d) ==
    LET name == "daily-performance"
        daily_stats == GroupBy(d, "date")
        k == Len(daily_stats)
        avg_wpm == [g \in 1..k |-> MeanOf(daily_stats[g].rows, "wpm")]
        avg_acc == [g \in 1..k |-> MeanOf(daily_stats[g].rows, "accuracy")]
        race_count == [g \in 1..k |-> Len(daily_stats[g].rows)]
        most_active == ArgMaxInt(race_count)
        best_wpm == ArgMaxRat(avg_wpm)
        worst_wpm == ArgMinRat(avg_wpm)
        best_acc == ArgMaxRat(avg_acc)
        \* daily_stats["avg_wpm"].std(): None for a single day
        std_defined == k >= 2
        std_dev == VarOfMeans(avg_wpm)
        s1 == S("Most productive day: {} ({} races completed)",
                <<daily_stats[most_active].key, race_count[most_active]>>)
        s2 == S("Best speed day: {} with {} WPM average",
                <<daily_stats[best_wpm].key, avg_wpm[best_wpm][1], avg_wpm[best_wpm][2]>>)
    IN  \* arg_max of an empty column is None, and indexing by it raises
        IF k = 0 THEN Raised(name, "computed", <<>>)
        \* f"{std_dev:.1f}" with std_dev None raises TypeError in the third sentence
        ELSE IF ~std_defined THEN Raised(name, "computed", <<s1, s2>>)
        ELSE Returned(name, "computed",
               <<s1, s2,
                 S("Day-to-day speed varies by +-{} WPM", std_dev),
                 S("Worst performance: {} with {} WPM",
                   <<daily_stats[worst_wpm].key, avg_wpm[worst_wpm][1], avg_wpm[worst_wpm][2]>>),
                 S("Most accurate day: {} ({}% accuracy)",
                   <<daily_stats[best_acc].key, avg_acc[best_acc][1], avg_acc[best_acc][2]>>),
                 S("You average {} races per active typing day", <<Len(d), k>>)>>)

-----------------------------------------------------------------------------
(* hourly-performance                                                      *)

\* The entries of ms at the positions g whose keys[g] lies in lo..hi-1
RECURSIVE PickBetween(_, _, _, _, _)
PickBetween(ms, keys, lo, hi, i) ==
    IF i = 0 THEN <<>>
    ELSE IF keys[i] >= lo /\ keys[i] < hi
         THEN Append(PickBetween(ms, keys, lo, hi, i - 1), ms[i])
         ELSE PickBetween(ms, keys, lo, hi, i - 1)

calculate_hourly_performance_insights(d) ==
    LET name == "hourly-performance"
        hourly_avg == GroupBy(d, "hour")
        k == Len(hourly_avg)
        hours == [g \in 1..k |-> hourly_avg[g].key]
        avg_wpm == [g \in 1..k |-> MeanOf(hourly_avg[g].rows, "wpm")]
        avg_acc == [g \in 1..k |-> MeanOf(hourly_avg[g].rows, "accuracy")]
        race_count == [g \in 1..k |-> Len(hourly_avg[g].rows)]
        best == ArgMaxRat(avg_wpm)
        worst == ArgMinRat(avg_wpm)
        most_active == ArgMaxInt(race_count)
        best_acc == ArgMaxRat(avg_acc)
        morning_hours == PickBetween(avg_wpm, hours, 6, 12, k)
        evening_hours == PickBetween(avg_wpm, hours, 18, 24, k)
        morning_avg == IF Len(morning_hours) > 0 THEN MeanOfMeans(morning_hours) ELSE <<0, 1>>
        evening_avg == IF Len(evening_hours) > 0 THEN MeanOfMeans(evening_hours) ELSE <<0, 1>>
        \* best_hour_wpm - worst_hour_wpm
        wpm_range == <<avg_wpm[best][1] * avg_wpm[worst][2] - avg_wpm[worst][1] * avg_wpm[best][2],
                       avg_wpm[best][2] * avg_wpm[worst][2]>>
        \* (morning_avg - evening_avg) / evening_avg * 100 if evening_avg > 0 else 0
        morning_boost ==
            IF evening_avg[1] > 0
            THEN <<100 * (morning_avg[1] * evening_avg[2] - evening_avg[1] * morning_avg[2]),
                   evening_avg[1] * morning_avg[2]>>
            ELSE <<0, 1>>
    IN  IF k = 0 THEN Raised(name, "computed", <<>>)
        ELSE Returned(name, "computed",
               <<S("Peak typing hours: {}:00-{}:00 ({} WPM average)",
                   <<hours[best], hours[best] + 1, avg_wpm[best][1], avg_wpm[best][2]>>),
                 S("Slowest period: {}:00-{}:00 ({} WPM average)",
                   <<hours[worst], hours[worst] + 1, avg_wpm[worst][1], avg_wpm[worst][2]>>),
                 IF morning_avg[1] > 0 /\ evening_avg[1] > 0
                 THEN S("Morning boost: {}% faster typing before noon", morning_boost)
                 ELSE S("Need more varied timing data", <<>>),
                 IF hours[best_acc] >= 20
                 THEN S("Evening accuracy drops to {}% after 8 PM",
                        <<avg_acc[best_acc][1], avg_acc[best_acc][2]>>)
                 ELSE S("Best accuracy: {}:00 hour ({}%)",
                        <<hours[best_acc], avg_acc[best_acc][1], avg_acc[best_acc][2]>>),
                 S("Most races completed: {}:00-{}:00 timeframe",
                   <<hours[most_active], hours[most_active] + 1>>),
                 IF hours[worst] >= 23
                 THEN S("Late night sessions (11 PM+): {}% speed decrease", wpm_range)
                 ELSE S("Hour-to-hour variation: {} WPM range", wpm_range)>>)

-----------------------------------------------------------------------------
(* rolling-average                                                         *)

\* window_size of rolling_mean / rolling_std
RollingWindow == 100
\* the row count below which the routine reports progress instead
RollingUnlock == 100
\* the size of the "recent" slice of the progress report
RecentRaces == 50

\* rolling_mean(window_size = RollingWindow) at position i >= RollingWindow, as
\* the window's sum (every window has RollingWindow rows); positions before
\* RollingWindow hold null.
WindowSum(xs, i) == SumRange(xs, i - RollingWindow + 1, i)

\* The sums of all complete windows: entry j is the window ending at position
\* RollingWindow + j - 1
RECURSIVE WindowSumsTo(_, _)
WindowSumsTo(xs, i) ==
    IF i < RollingWindow THEN <<>>
    ELSE Append(WindowSumsTo(xs, i - 1), WindowSum(xs, i))
WindowSums(xs) == WindowSumsTo(xs, Len(xs))

calculate_rolling_average_insights(d) ==
    LET name == "rolling-average"
        df_sorted == SortBy(d, "race_num")
        n == Len(df_sorted)
        wpm == Column(df_sorted, "wpm")
        recent == Min2(RecentRaces, n)
        rolling == WindowSums(wpm)
        latest_100 == rolling[Len(rolling)]
        latest_std == VarOf(SubSeq(wpm, n - RollingWindow + 1, n))
        overall == SumSeq(wpm)
        \* rolling_avg.arg_max(): nulls skipped, first maximum; as a row position
        max_rolling_idx == ArgMaxInt(rolling) + RollingWindow - 1
        max_rolling == rolling[ArgMaxInt(rolling)]
        min_rolling == rolling[ArgMinInt(rolling)]
        peak_race_num == df_sorted[max_rolling_idx].race_num
        \* latest_100 / W - overall / n
        gap == <<latest_100 * n - overall * RollingWindow, RollingWindow * n>>
    IN  \* the mean of an empty column is None, which f"{current_avg:.1f}" rejects
        IF n = 0 THEN Raised(name, "progress", <<>>)
        ELSE IF n < RollingUnlock THEN
            Returned(name, "progress",
               <<S("Current average: {} WPM", <<overall, n>>),
                 S("Need {} more races for 100-race rolling average", <<100 - n>>),
                 S("Keep racing to unlock rolling insights", <<>>),
                 S("Recent {} races: {} WPM",
                   <<recent, SumSeq(Column(TailRows(df_sorted, recent), "wpm")), recent>>),
                 S("Progress: {}/100 races completed", <<n>>),
                 S("Rolling analysis unlocks at 100 races", <<>>)>>)
        ELSE
            Returned(name, "computed",
               <<S("Your last 100 races averaged {} WPM", <<latest_100, RollingWindow>>),
                 IF gap[1] > 0
                 THEN S("Recent form: {} WPM above your overall average", gap)
                 ELSE S("Recent form: {} WPM below your overall average", <<Abs(gap[1]), gap[2]>>),
                 S("Best 100-race streak peaked at {} WPM", <<max_rolling, RollingWindow>>),
                 S("Peak performance occurred around race #{}", <<peak_race_num>>),
                 S("Current consistency: +-{} WPM in recent races", latest_std),
                 S("Speed range: {} WPM (worst streak) to {} WPM (best)",
                   <<min_rolling, RollingWindow, max_rolling, RollingWindow>>)>>)

-----------------------------------------------------------------------------
(* The other per-view routines, by their control flow: which branch        *)
(* returns, and where the routine raises (a null statistic handed to a     *)
(* numeric format or to arithmetic).  The values they interpolate are left *)
(* out of their sentences here; a sentence is named by its leading text.   *)

\* A list literal written one sentence short
TextsButLast(ts) == [i \in 1..(Len(ts) - 1) |-> S(ts[i], <<>>)]

Texts(ts) == [i \in 1..Len(ts) |-> S(ts[i], <<>>)]

HasWin(d) == \E i \in 1..Len(d) : d[i].rank = 1

\* np.histogram(wpm_values, bins=15)
HistogramBins == 15

\* A histogram range taken from the first and last values of the list
WpmRangeOfEnds(xs) == <<Min2(xs[1], xs[Len(xs)]), Max2(xs[1], xs[Len(xs)])>>

\* The histogram's range: the smallest and the largest value
WpmRange(xs) == <<xs[ArgMinInt(xs)], xs[ArgMaxInt(xs)]>>

\* The range's ends in halves: np.histogram widens an empty range (all
\* values equal) by 0.5 on each side
HalfEdges(xs) ==
    LET r == WpmRange(xs)
    IN  IF r[1] = r[2] THEN <<2 * r[1] - 1, 2 * r[2] + 1>> ELSE <<2 * r[1], 2 * r[2]>>

\* bin_edges[j] (j from 0) in units of 1 / (2 * HistogramBins), for the
\* half-ends e
EdgeNum(e, j) == HistogramBins * e[1] + j * (e[2] - e[1])

\* The bin (from 0) holding x: bins are closed on the left, the last one on
\* both sides; -1 for a value outside the range
BinOf(x, e) ==
    IF 2 * x < e[1] \/ 2 * x > e[2] THEN -1
    ELSE Min2(HistogramBins - 1,
              (2 * HistogramBins * x - HistogramBins * e[1]) \div (e[2] - e[1]))

\* hist
Histogram(xs) ==
    [j \in 1..HistogramBins |->
        Cardinality({i \in 1..Len(xs) : BinOf(xs[i], HalfEdges(xs)) = j - 1})]

\* mode_range: the edges of bin np.argmax(hist), the first of the fullest
ModeRange(xs) ==
    LET max_bin_idx == ArgMaxInt(Histogram(xs)) - 1
    IN  S("Most races fall between {}-{} WPM range",
          <<EdgeNum(HalfEdges(xs), max_bin_idx), 2 * HistogramBins,
            EdgeNum(HalfEdges(xs), max_bin_idx + 1), 2 * HistogramBins>>)

calculate_wpm_distribution_insights(d) ==
    LET name == "wpm-distribution"
        all == Texts(<<"Your average typing speed is", "Most races fall between",
                       "You need", "Your slowest 10% of races are below",
                       "Speed consistency:", "Fast races (100+ WPM):">>)
    IN  IF Len(d) = 0 THEN Raised(name, "computed", <<>>)
        \* std of one value is None: the fifth sentence's format raises
        ELSE IF Len(d) < 2 THEN Raised(name, "computed", SubSeq(all, 1, 4))
        ELSE Returned(name, "computed",
                      [all EXCEPT ![2] = ModeRange(Column(d, "wpm"))])

\* Series comparison and .sum(): the rows of d whose accuracy satisfies P
CountWhere(d, P(_)) == Len(Filter(d, P))

\* 0.90, 0.95 and 1.0, in thousandths
Acc90 == 900
Acc95 == 950
Acc100 == 1000

calculate_accuracy_distribution_insights(d) ==
    LET name == "accuracy-distribution"
        above_95 == CountWhere(d, LAMBDA r : r.accuracy > Acc95)
        perfect_count == CountWhere(d, LAMBDA r : r.accuracy = Acc100)
        tier_90_95 == CountWhere(d, LAMBDA r : r.accuracy >= Acc90 /\ r.accuracy < Acc95)
        tier_95_99 == CountWhere(d, LAMBDA r : r.accuracy >= Acc95 /\ r.accuracy < Acc100)
        all == <<S("Your average accuracy is", <<>>),
                 S("You achieve 95%+ accuracy in {}% of races", <<100 * above_95, Len(d)>>),
                 S("Perfect 100% accuracy: {} races completed", <<perfect_count>>),
                 S("Accuracy consistency:", <<>>),
                 S("Your lowest accuracy was", <<>>),
                 S("Accuracy tiers: {} races (90-95%), {} races (95-99%)",
                   <<tier_90_95, tier_95_99>>)>>
    IN  \* division by len(df) = 0
        IF Len(d) = 0 THEN Raised(name, "computed", <<>>)
        \* std_acc * 100 with std_acc None, in the fourth sentence
        ELSE IF Len(d) < 2 THEN Raised(name, "computed", SubSeq(all, 1, 3))
        ELSE Returned(name, "computed", all)

\* The rank from which a finish counts as outside the top 5, and the rank
\* from which a race counts as competitive
Top5 == 5
CompetitiveRank == 4

calculate_rank_distribution_insights(d) ==
    LET name == "rank-distribution"
        top5 == CountWhere(d, LAMBDA r : r.rank <= Top5)
        competitive_races == CountWhere(d, LAMBDA r : r.rank >= CompetitiveRank)
        all == Texts(<<"You place 1st in", "Top 3 finishes:", "Average final position:",
                       "Last place finishes:", "Most common result:",
                       "Competitive races (4+ opponents):">>)
    IN  IF Len(d) = 0 THEN Raised(name, "computed", <<>>)
        ELSE Returned(name, "computed",
               [all EXCEPT
                  \* 100 - top5_rate
                  ![4] = S("Last place finishes: {}% of races",
                           <<100 * Len(d) - 100 * top5, Len(d)>>),
                  ![6] = S("Competitive races (4+ opponents): {} total races",
                           <<competitive_races>>)])

calculate_wpm_vs_accuracy_insights(d) ==
    LET name == "wpm-vs-accuracy"
    IN  \* f"{high_speed_threshold:.0f}" with the quantile of an empty column
        IF Len(d) = 0
        THEN Raised(name, "computed",
                    Texts(<<"Strong correlation: higher accuracy = faster speed",
                            "At 95%+ accuracy", "Below 90% accuracy",
                            "Sweet spot: 96-98% accuracy gives best speed/accuracy balance">>))
        ELSE Returned(name, "computed",
               Texts(<<"Strong correlation: higher accuracy = faster speed",
                       "At 95%+ accuracy", "Below 90% accuracy",
                       "Sweet spot: 96-98% accuracy gives best speed/accuracy balance",
                       "Your accuracy floor", "Perfect accuracy races:">>))

\* group_by("text_id").agg(...).sort("attempts", descending=True): one row per
\* distinct text_id.  group_by is called without maintain_order, so the library
\* fixes no order of the groups, and the sort orders them by attempts only:
\* every arrangement of the text ids with attempts non-increasing can be the
\* frame text_stats.
Attempts(d, text_id) == Len(RowsWith(d, "text_id", text_id))

TextStats(d) ==
    LET K == {d[i].text_id : i \in 1..Len(d)}
    IN  {o \in [1..Cardinality(K) -> K] :
            /\ \A i, j \in 1..Cardinality(K) : o[i] = o[j] => i = j
            /\ \A i, j \in 1..Cardinality(K) :
                  i < j => Attempts(d, o[i]) >= Attempts(d, o[j])}

\* text_stats is the order of the text ids in the frame of that name
calculate_top_texts_insights(d, text_stats) ==
    LET name == "top-texts"
        k == Len(text_stats)
        attempts == [g \in 1..k |-> Attempts(d, text_stats[g])]
        avg_wpm == [g \in 1..k |-> MeanOf(RowsWith(d, "text_id", text_stats[g]), "wpm")]
        best_performance_idx == ArgMaxRat(avg_wpm)
        hardest_idx == ArgMinRat(avg_wpm)
        all == Texts(<<"Most practiced text:", "Best performance text:", "Hardest text:",
                       "You've practiced", "Repeated texts show",
                       "Average practice depth:">>)
    IN  IF k = 0
        THEN Returned(name, "need_more",
               Texts(<<"No text data available", "Upload race data",
                       "Text analysis coming soon", "Practice different texts",
                       "Variety helps improvement", "Track your favorites">>))
        ELSE Returned(name, "computed",
               [all EXCEPT
                  ![1] = S("Most practiced text: ID {} ({} attempts)",
                           <<text_stats[1], attempts[1]>>),
                  ![2] = S("Best performance text: ID {} ({} WPM avg)",
                           <<text_stats[best_performance_idx],
                             avg_wpm[best_performance_idx][1],
                             avg_wpm[best_performance_idx][2]>>),
                  ![3] = S("Hardest text: ID {} ({} WPM avg)",
                           <<text_stats[hardest_idx],
                             avg_wpm[hardest_idx][1], avg_wpm[hardest_idx][2]>>),
                  ![4] = S("You've practiced {} different text passages", <<k>>)])

calculate_consistency_insights(d) ==
    LET name == "consistency-score"
        wpm == Column(d, "wpm")
        morning_races == Filter(d, LAMBDA r : r.hour < 12)
        all == Texts(<<"Typing consistency score:", "Most consistent in accuracy",
                       "Speed varies more than accuracy day-to-day",
                       "Your steadiest week:", "Consistency improves in longer practice sessions",
                       "Morning sessions are">>)
    IN  \* wpm_std / mean with wpm_std None (fewer than 2 rows)
        IF Len(d) < 2 THEN Raised(name, "computed", <<>>)
        \* (wpm_std - morning_std) / wpm_std with wpm_std = 0.0
        ELSE IF Len(morning_races) > 10 /\ VarOf(wpm)[1] = 0 THEN Raised(name, "computed", <<>>)
        ELSE Returned(name, "computed", all)

\* Accuracy thresholds, in thousandths: 0.90 and 0.93
LowAccuracy == 900
WinAccuracy == 930

\* The threshold test with `>` for `>=`
HighAccuracyWinStrict(r) == r.rank = 1 /\ r.accuracy > WinAccuracy

\* (rank == 1) & (accuracy >= 0.93), and (rank == 1) & (accuracy < 0.90)
HighAccuracyWin(r) == r.rank = 1 /\ r.accuracy >= WinAccuracy
LowAccuracyWin(r) == r.rank = 1 /\ r.accuracy < LowAccuracy

\* The mean accuracy of the races of one rank, `else 0` when there are none
RankAccuracyOrZero(d, rank) ==
    IF \E i \in 1..Len(d) : d[i].rank = rank
    THEN MeanOf(RowsWith(d, "rank", rank), "accuracy")
    ELSE <<0, 1>>

calculate_accuracy_by_rank_insights(d) ==
    LET name == "accuracy-by-rank"
        first_place_acc == RankAccuracyOrZero(d, 1)
        second_place_acc == RankAccuracyOrZero(d, 2)
        last_place_rank == Column(d, "rank")[ArgMaxInt(Column(d, "rank"))]
        last_place_acc == MeanOf(RowsWith(d, "rank", last_place_rank), "accuracy")
        wins_with_high_acc == Len(Filter(d, HighAccuracyWin))
        total_wins == Len(Filter(d, LAMBDA r : r.rank = 1))
        low_acc_wins == Len(Filter(d, LowAccuracyWin))
        \* first_place_acc - last_place_acc
        accuracy_gap ==
            <<first_place_acc[1] * last_place_acc[2] - last_place_acc[1] * first_place_acc[2],
              first_place_acc[2] * last_place_acc[2]>>
    IN  \* last_place_acc * 100 with the mean of an empty column
        IF Len(d) = 0 THEN Raised(name, "computed", <<>>)
        ELSE Returned(name, "computed",
               <<S("1st place races require {}% average accuracy", first_place_acc),
                 S("When accuracy drops below 90%, you rarely win ({} exceptions)",
                   <<low_acc_wins>>),
                 S("2nd place finishes: {}% accuracy needed", second_place_acc),
                 S("Last place correlates with <{}% accuracy", last_place_acc),
                 S("Accuracy gap: {}% between 1st and last place", accuracy_gap),
                 S("Winning accuracy threshold: 93% minimum ({}/{} wins above this)",
                   <<wins_with_high_acc, total_wins>>)>>)

\* The early and recent slices never empty
QuarterOfAtLeastOne(n) == Max2(1, Min2(50, n \div 4))

\* min(50, len(df_sorted) // 4): the rows of the early and of the recent slice
QuarterOf(n) == Min2(50, n \div 4)

\* The rows the plateau test looks at, and its bound on their standard
\* deviation (0.02, in thousandths)
PlateauWindow == 100
PlateauStd == 20

\* df_sorted.tail(100) if len(df_sorted) >= 100 else df_sorted
Last100(df_sorted) ==
    IF Len(df_sorted) >= PlateauWindow THEN TailRows(df_sorted, PlateauWindow) ELSE df_sorted

\* last_100_std < 0.02, on the variance <<numerator, denominator>>
BelowPlateauStd(v) == v[1] < PlateauStd * PlateauStd * v[2]

calculate_cumulative_accuracy_insights(d) ==
    LET name == "cumulative-accuracy"
        df_sorted == SortBy(d, "race_num")
        quarter == QuarterOf(Len(df_sorted))
        last_100 == Column(Last100(df_sorted), "accuracy")
        all == Texts(<<"Your accuracy has improved", "Started at", "Biggest accuracy jump:",
                       "Most accurate recent 50 races:", "Accuracy plateau or variation",
                       "Your accuracy rarely drops below">>)
    IN  \* recent_acc - early_acc with both means None (empty head and tail)
        IF quarter = 0 THEN Raised(name, "computed", <<>>)
        ELSE Returned(name, "computed",
               [all EXCEPT
                  ![5] = IF BelowPlateauStd(VarOf(last_100))
                         THEN S("Accuracy plateau reached at race #{}",
                                <<Len(df_sorted) - PlateauWindow>>)
                         ELSE S("Still improving accuracy (+-{}% recent variation)",
                                VarOf(last_100))])

calculate_wpm_by_rank_insights(d) ==
    LET name == "wpm-by-rank-boxplot"
        all == Texts(<<"1st place average:", "Speed gap between 1st and 2nd:",
                       "Minimum winning speed in your races:", "2nd place speed range:",
                       "Last place average:", "To guarantee wins, maintain">>)
    IN  \* f"{last_place_avg:.1f}" with the mean of an empty column
        IF Len(d) = 0 THEN Raised(name, "computed", SubSeq(all, 1, 4))
        \* the 0.9 quantile of no winning race is None: the sixth format raises
        ELSE IF ~HasWin(d) THEN Raised(name, "computed", SubSeq(all, 1, 5))
        ELSE Returned(name, "computed", all)

calculate_racers_impact_insights(d) ==
    LET name == "racers-impact"
    IN  IF Len(d) = 0
        THEN Returned(name, "need_more",
               Texts(<<"Need race data with opponent counts", "Upload more race data",
                       "Competitive analysis coming soon", "Practice with different field sizes",
                       "Track your performance vs others",
                       "Opponent impact analysis unlocks later">>))
        ELSE Returned(name, "computed",
               Texts(<<"You perform better with", "Solo races", "Large fields (5+ racers):",
                       "Best competition level:", "Win rate peaks at",
                       "Head-to-head or competitive racing">>))

\* the attempts a text needs to enter the improvement statistics
FrequentMinAttempts == 5

\* .filter(pl.col("attempts") > 5)
FrequentTextsOver(d) ==
    {t \in {d[i].text_id : i \in 1..Len(d)} :
        Len(RowsWith(d, "text_id", t)) > FrequentMinAttempts}

\* group_by("text_id").agg(count).filter(pl.col("attempts") >= 5): the text ids kept
FrequentTexts(d) ==
    {t \in {d[i].text_id : i \in 1..Len(d)} :
        Len(RowsWith(d, "text_id", t)) >= FrequentMinAttempts}

\* pl.col("wpm").first() / .last() of a group: the rows of a group keep the
\* order they have in the frame
FirstWpm(rows) == rows[1].wpm
LastWpm(rows) == rows[Len(rows)].wpm

\* (last_wpm - first_wpm) / first_wpm * 100, as <<numerator, denominator>>
ImprovementPct(rows) == <<100 * (LastWpm(rows) - FirstWpm(rows)), FirstWpm(rows)>>

\* The sentences name no text, and the mean and the maximum of a column do not
\* depend on the order of its rows: the kept groups are listed by text id.
calculate_frequent_texts_insights(d) ==
    LET name == "frequent-texts-improvement"
        text_attempts == SortedSeqOf(FrequentTexts(d))
        improvement_pct == [g \in 1..Len(text_attempts) |->
                               ImprovementPct(RowsWith(d, "text_id", text_attempts[g]))]
        all == Texts(<<"Texts practiced 5+ times show", "Your most improved text gained",
                       "Text familiarity peaks at 8-10 attempts", "New texts:",
                       "You improve accuracy faster than speed on repeats",
                       "Best learning curve: Short texts (100-150 chars)">>)
    IN  IF Len(text_attempts) = 0
        THEN Returned(name, "need_more",
               Texts(<<"Need more repeated texts for analysis",
                       "Try practicing same texts multiple times",
                       "Familiarity improves performance", "5+ attempts needed per text",
                       "Track your improvement on favorites",
                       "Repetition builds muscle memory">>))
        ELSE Returned(name, "computed",
               [all EXCEPT
                  ![1] = S("Texts practiced 5+ times show {}% speed improvement",
                           MeanOfMeans(improvement_pct)),
                  ![2] = S("Your most improved text gained {} WPM",
                           improvement_pct[ArgMaxRat(improvement_pct)])])

calculate_top_texts_distribution_insights(d) ==
    LET name == "top-texts-distribution"
    IN  IF Len(d) = 0
        THEN Returned(name, "need_more",
               Texts(<<"No text data available", "Upload race data with text info",
                       "Text analysis coming soon", "Practice variety helps",
                       "Track your favorites", "Different lengths challenge you">>))
        ELSE Returned(name, "computed",
               Texts(<<"Your top 10 texts average", "Most practiced text averages",
                       "High-performing texts", "Low-performing texts",
                       "Text repetition rate:", "You've practiced">>))

\* The streak loop with the `+ 1` of line 758 left out
AfterWinStepNoExtra(st, prev_win, current_win) ==
    IF prev_win
    THEN IF current_win
         THEN [st EXCEPT !.current_streak = @ + 1]
         ELSE [current_streak |-> 0,
               win_streaks |-> IF st.current_streak > 0
                               THEN Append(st.win_streaks, st.current_streak)
                               ELSE st.win_streaks]
    ELSE IF current_win
         THEN [st EXCEPT !.current_streak = 1]
         ELSE [current_streak |-> 0,
               win_streaks |-> IF st.current_streak > 0
                               THEN Append(st.win_streaks, st.current_streak)
                               ELSE st.win_streaks]

\* One iteration of the loop of lines 743-765 on current_streak and
\* win_streaks (the post_win_races it also collects are PostWinRaces below)
AfterWinStep(st, prev_win, current_win) ==
    IF prev_win
    THEN IF current_win
         THEN [st EXCEPT !.current_streak = @ + 1]
         ELSE [current_streak |-> 0,
               win_streaks |-> IF st.current_streak > 0
                               THEN Append(st.win_streaks, st.current_streak + 1)
                               ELSE st.win_streaks]
    ELSE IF current_win
         THEN [st EXCEPT !.current_streak = 1]
         ELSE [current_streak |-> 0,
               win_streaks |-> IF st.current_streak > 0
                               THEN Append(st.win_streaks, st.current_streak)
                               ELSE st.win_streaks]

\* The loop `for i in range(1, len(df_sorted))` up to and including i (0-based
\* i, comparing rows i and i + 1 of the 1-based sequence)
RECURSIVE AfterWinScan(_, _)
AfterWinScan(wins, i) ==
    IF i <= 0 THEN [current_streak |-> 0, win_streaks |-> <<>>]
    ELSE AfterWinStep(AfterWinScan(wins, i - 1), wins[i] # 0, wins[i + 1] # 0)

\* win_streaks after the loop and the "final streak" flush of lines 768-769
WinStreaks(wins) ==
    LET st == AfterWinScan(wins, Len(wins) - 1)
    IN  IF st.current_streak > 0 THEN Append(st.win_streaks, st.current_streak)
        ELSE st.win_streaks

\* max_streak = max(win_streaks) if win_streaks else 1
MaxStreak(wins) ==
    LET win_streaks == WinStreaks(wins)
    IN  IF win_streaks = <<>> THEN 1 ELSE win_streaks[ArgMaxInt(win_streaks)]

\* The rows among the first i of df_sorted, the first excepted, whose
\* predecessor's win flag is (after_win) or is not set
RECURSIVE RowsFollowing(_, _, _)
RowsFollowing(df_sorted, after_win, i) ==
    IF i <= 1 THEN <<>>
    ELSE IF (df_sorted[i - 1].win # 0) = after_win
         THEN Append(RowsFollowing(df_sorted, after_win, i - 1), df_sorted[i])
         ELSE RowsFollowing(df_sorted, after_win, i - 1)

\* post_win_races taking the races that are wins themselves
PostWinRacesOwnWin(df_sorted) ==
    Filter(TailRows(df_sorted, Len(df_sorted) - 1), LAMBDA r : r.win # 0)

\* post_win_races (lines 743-754) and post_loss_races (lines 788-796)
PostWinRaces(df_sorted) == RowsFollowing(df_sorted, TRUE, Len(df_sorted))
PostLossRaces(df_sorted) == RowsFollowing(df_sorted, FALSE, Len(df_sorted))

NeedMoreWins ==
    Texts(<<"Need more wins to analyze streaks", "Win some races first!",
            "Post-victory analysis coming", "Keep practicing to win",
            "Streaks unlock after wins", "Victory momentum tracking soon">>)

\* The six sentences, from the sorted frame and the two groups
AfterWinSentences(df_sorted, post_win, post_loss) ==
    LET post_win_wpm == MeanOf(post_win, "wpm")
        post_win_acc == MeanOf(post_win, "accuracy")
        post_win_wins == MeanOf(post_win, "win")
        overall_wpm == MeanOf(df_sorted, "wpm")
        overall_acc == MeanOf(df_sorted, "accuracy")
        \* post_win_wpm - overall_avg_wpm
        boost == <<post_win_wpm[1] * overall_wpm[2] - overall_wpm[1] * post_win_wpm[2],
                   post_win_wpm[2] * overall_wpm[2]>>
    IN  <<S("After winning, your next race speed: {} WPM", post_win_wpm),
          S("Win streak probability: {}% chance of back-to-back wins",
            <<100 * post_win_wins[1], post_win_wins[2]>>),
          IF RatLess(overall_acc[1], overall_acc[2], post_win_acc[1], post_win_acc[2])
          THEN S("Post-victory accuracy: {}% (slight improvement)", post_win_acc)
          ELSE S("Post-victory accuracy: {}% (stays consistent)", post_win_acc),
          S("Your longest active streak: {} consecutive wins",
            <<MaxStreak(Column(df_sorted, "win"))>>),
          IF boost[1] > 0
          THEN S("Confidence boost: {} WPM average after victories", boost)
          ELSE S("Post-win focus: {} WPM steadier performance", <<Abs(boost[1]), boost[2]>>),
          S("After losses, you bounce back {}% of the time",
            IF post_loss = <<>> THEN <<0, 1>>
            ELSE <<100 * SumSeq(Column(post_loss, "win")), Len(post_loss)>>)>>

calculate_win_rate_after_win_insights(d) ==
    LET name == "win-rate-after-win"
        df_sorted == SortBy(d, "race_num")
        post_win == PostWinRaces(df_sorted)
    IN  IF post_win = <<>> THEN Returned(name, "need_more", NeedMoreWins)
        ELSE Returned(name, "computed",
                      AfterWinSentences(df_sorted, post_win, PostLossRaces(df_sorted)))

calculate_fastest_slowest_insights(d) ==
    LET name == "fastest-slowest-races"
        all == Texts(<<"Personal record:", "Slowest race:", "Speed range spans",
                       "Top 5% races all exceed", "Your bottom 5% are below",
                       "Typical race falls within">>)
    IN  \* max - min of an empty column
        IF Len(d) = 0 THEN Raised(name, "computed", <<>>)
        \* mean - 2 * std with std None, in the second sentence
        ELSE IF Len(d) < 2 THEN Raised(name, "computed", SubSeq(all, 1, 1))
        ELSE Returned(name, "computed", all)

\* Thresholds of the routine, in seconds: 5 minutes; 15 to 30 minutes; 2 hours
SessionGap == 300
QuickBelow == 300
OptimalFrom == 900
OptimalTo == 1800
LongFrom == 7200

\* time_diffs, in seconds: entry i is the gap between rows i and i + 1 of the
\* frame sorted by datetime_utc
TimeDiffs(df_sorted) ==
    [i \in 1..(Len(df_sorted) - 1) |->
        df_sorted[i + 1].datetime_utc - df_sorted[i].datetime_utc]

\* The session test with `<` for `<=`
SessionStepStrict(st, diff) ==
    IF diff < SessionGap
    THEN [st EXCEPT !.current_session = @ + 1]
    ELSE [current_session |-> 1,
          session_races |-> IF st.current_session > 1
                            THEN Append(st.session_races, st.current_session)
                            ELSE st.session_races]

\* One iteration of the loop of lines 847-859 on current_session and
\* session_races
SessionStep(st, diff) ==
    IF diff <= SessionGap
    THEN [st EXCEPT !.current_session = @ + 1]
    ELSE [current_session |-> 1,
          session_races |-> IF st.current_session > 1
                            THEN Append(st.session_races, st.current_session)
                            ELSE st.session_races]

RECURSIVE SessionScan(_, _)
SessionScan(diffs, i) ==
    IF i <= 0 THEN [current_session |-> 1, session_races |-> <<>>]
    ELSE SessionStep(SessionScan(diffs, i - 1), diffs[i])

\* session_races after the loop and the flush of lines 861-862
SessionRaces(diffs) ==
    LET st == SessionScan(diffs, Len(diffs))
    IN  IF st.current_session > 1 THEN Append(st.session_races, st.current_session)
        ELSE st.session_races

\* The if/elif chain of lines 876-881
GapKind(diff) ==
    IF diff < QuickBelow THEN "quick"
    ELSE IF OptimalFrom <= diff /\ diff <= OptimalTo THEN "optimal"
    ELSE IF diff >= LongFrom THEN "long"
    ELSE "none"

\* quick_succession, optimal_breaks or long_breaks: the rows after the first i
\* gaps of that kind
RECURSIVE RacesAfter(_, _, _, _)
RacesAfter(df_sorted, diffs, kind, i) ==
    IF i <= 0 THEN <<>>
    ELSE IF GapKind(diffs[i]) = kind
         THEN Append(RacesAfter(df_sorted, diffs, kind, i - 1), df_sorted[i + 1])
         ELSE RacesAfter(df_sorted, diffs, kind, i - 1)

\* np.mean of the races' wpm `if` the list is non-empty `else 0`
AvgWpmOrZero(races) == IF races = <<>> THEN <<0, 1>> ELSE MeanOf(races, "wpm")

\* session_improvements (lines 893-906): session j of session_races is taken
\* to be the rows session_start_idx + 1 .. session_start_idx + length, where
\* session_start_idx is the sum of the lengths before it
RECURSIVE SessionImprovements(_, _, _)
SessionImprovements(df_sorted, session_races, j) ==
    IF j = 0 THEN <<>>
    ELSE LET session_start_idx == SumRange(session_races, 1, j - 1)
             session_end_idx == session_start_idx + session_races[j]
         IN  Append(SessionImprovements(df_sorted, session_races, j - 1),
                    df_sorted[session_end_idx].wpm - df_sorted[session_start_idx + 1].wpm)

NeedMoreRaces ==
    Texts(<<"Need more races for timing analysis", "Upload more race data",
            "Time patterns coming soon", "Practice consistency helps",
            "Session analysis unlocks later", "Keep racing to see patterns">>)

\* The six sentences (lines 919-926)
TimingSentences(d, df_sorted, diffs, session_races) ==
    LET quick == AvgWpmOrZero(RacesAfter(df_sorted, diffs, "quick", Len(diffs)))
        optimal == AvgWpmOrZero(RacesAfter(df_sorted, diffs, "optimal", Len(diffs)))
        long == AvgWpmOrZero(RacesAfter(df_sorted, diffs, "long", Len(diffs)))
        improvements == SessionImprovements(df_sorted, session_races, Len(session_races))
        daily == GroupBy(d, "date")
        firsts == [g \in 1..Len(daily) |-> daily[g].rows[1].wpm]
        means == [g \in 1..Len(daily) |-> MeanOf(daily[g].rows, "wpm")]
        session_avg == MeanOfMeans(means)
    IN  <<S("Average break between races: {} minutes", <<SumSeq(diffs), 60 * Len(diffs)>>),
          IF quick[1] > 0
          THEN S("Quick succession (<5 min gap): {} WPM average", quick)
          ELSE S("No quick succession data", <<>>),
          IF long[1] > 0
          THEN S("Long breaks (2+ hours): {} WPM return speed", long)
          ELSE S("No long break data", <<>>),
          IF optimal[1] > 0
          THEN S("Optimal rest time: 15-30 minutes between races ({} WPM)", optimal)
          ELSE S("Optimal rest time: 15-30 minutes between races", <<>>),
          IF SumSeq(improvements) # 0
          THEN S("Same-session races improve by {} WPM on average",
                 <<SumSeq(improvements), Len(improvements)>>)
          ELSE S("Average session length: {} races",
                 IF session_races = <<>> THEN <<1, 1>>
                 ELSE <<SumSeq(session_races), Len(session_races)>>),
          S("Daily first race: {} WPM vs session average: {} WPM",
            <<SumSeq(firsts), Len(firsts), session_avg[1], session_avg[2]>>)>>

calculate_time_between_races_insights(d) ==
    LET name == "time-between-races"
        df_sorted == SortBy(d, "datetime_utc")
        diffs == TimeDiffs(df_sorted)
    IN  \* time_diffs is empty with fewer than 2 rows
        IF Len(diffs) = 0 THEN Returned(name, "need_more", NeedMoreRaces)
        ELSE Returned(name, "computed",
                      TimingSentences(d, df_sorted, diffs, SessionRaces(diffs)))

-----------------------------------------------------------------------------
(* The dispatcher and the public entry point.                              *)

\* The view identifiers the dispatcher's if/elif chain names
KnownViews ==
    {"wpm-distribution", "wmp-distribution", "accuracy-distribution",
     "performance-over-time", "daily-performance", "rolling-average",
     "rank-distribution", "hourly-performance", "wpm-vs-accuracy",
     "win-rate-monthly", "top-texts", "consistency-score", "accuracy-by-rank",
     "cumulative-accuracy", "wpm-by-rank-boxplot", "racers-impact",
     "frequent-texts-improvement", "top-texts-distribution", "win-rate-after-win",
     "fastest-slowest-races", "time-between-races"}

\* The list of the dispatcher's else branch; the second sentence is
\* f"Showing data for {chart_type}"
Placeholder(ct) ==
    <<S("Chart insights not yet implemented", <<>>),
      S("Showing data for " \o ct, <<>>),
      S("More insights coming soon", <<>>)>>

UnknownViewRaises(ct) == Raised("none", "placeholder", <<>>)

\* The else branch: no routine is called
UnknownView(ct) == Returned("none", "placeholder", Placeholder(ct))

\* The frames text_stats a call on view ct can build from d; <<>> for the views
\* that build none
TextStatsFor(d, ct) == IF ct = "top-texts" THEN TextStats(d) ELSE {<<>>}

calculate_chart_insights(d, ct, text_stats) ==
    CASE ct = "wpm-distribution" \/ ct = "wmp-distribution" ->
            calculate_wpm_distribution_insights(d)
      [] ct = "accuracy-distribution" -> calculate_accuracy_distribution_insights(d)
      [] ct = "performance-over-time" -> calculate_performance_over_time_insights(d)
      [] ct = "daily-performance" -> calculate_daily_performance_insights(d)
      [] ct = "rolling-average" -> calculate_rolling_average_insights(d)
      [] ct = "rank-distribution" -> calculate_rank_distribution_insights(d)
      [] ct = "hourly-performance" -> calculate_hourly_performance_insights(d)
      [] ct = "wpm-vs-accuracy" -> calculate_wpm_vs_accuracy_insights(d)
      [] ct = "win-rate-monthly" -> calculate_win_rate_monthly_insights(d)
      [] ct = "top-texts" -> calculate_top_texts_insights(d, text_stats)
      [] ct = "consistency-score" -> calculate_consistency_insights(d)
      [] ct = "accuracy-by-rank" -> calculate_accuracy_by_rank_insights(d)
      [] ct = "cumulative-accuracy" -> calculate_cumulative_accuracy_insights(d)
      [] ct = "wpm-by-rank-boxplot" -> calculate_wpm_by_rank_insights(d)
      [] ct = "racers-impact" -> calculate_racers_impact_insights(d)
      [] ct = "frequent-texts-improvement" -> calculate_frequent_texts_insights(d)
      [] ct = "top-texts-distribution" -> calculate_top_texts_distribution_insights(d)
      [] ct = "win-rate-after-win" -> calculate_win_rate_after_win_insights(d)
      [] ct = "fastest-slowest-races" -> calculate_fastest_slowest_insights(d)
      [] ct = "time-between-races" -> calculate_time_between_races_insights(d)
      [] OTHER -> UnknownView(ct)

\* The list the except branch returns
Fallback(d) ==
    <<S("Insufficient data for detailed analysis", <<>>),
      S("Showing {} races", <<Len(d)>>),
      S("Upload more data for insights", <<>>)>>

\* What calculate_insights_with_fallback makes of the dispatcher's outcome o.
\* value is the dict returned; escaped says whether an exception left the
\* function instead; routine, path, raised and built record what the
\* dispatcher did, for the properties about it.
WithoutTry(d, o) ==
    [escaped |-> o.raised,
     value |-> [insights |-> o.insights, has_insights |-> TRUE],
     routine |-> o.routine, path |-> o.path, raised |-> o.raised,
     built |-> o.insights]

KeepingBuilt(d, o) ==
    [escaped |-> FALSE,
     value |-> IF o.raised
               THEN [insights |-> o.insights \o Fallback(d), has_insights |-> FALSE]
               ELSE [insights |-> o.insights, has_insights |-> TRUE],
     routine |-> o.routine, path |-> o.path, raised |-> o.raised,
     built |-> o.insights]

\* try: return {insights, True}  except Exception: return {fallback, False}
TryExcept(d, o) ==
    [escaped |-> FALSE,
     value |-> IF o.raised
               THEN [insights |-> Fallback(d), has_insights |-> FALSE]
               ELSE [insights |-> o.insights, has_insights |-> TRUE],
     routine |-> o.routine, path |-> o.path, raised |-> o.raised,
     built |-> o.insights]

calculate_insights_with_fallback(d, ct, text_stats) ==
    TryExcept(d, calculate_chart_insights(d, ct, text_stats))

\* The DataFrame the caller passed, as the call leaves it: every routine works
\* on new frames (df.sort, df.filter, group_by return copies).
DatasetSortedInPlace(d, ct) ==
    IF ct \in {"rolling-average", "win-rate-monthly", "cumulative-accuracy",
               "win-rate-after-win"}
    THEN SortBy(d, "race_num") ELSE d

DatasetAfterCall(d, ct) == d

-----------------------------------------------------------------------------
(* The engine on its own: one call of calculate_insights_with_fallback.    *)

Call ==
    /\ call_pc = "ready"
    /\ \E text_stats \in TextStatsFor(df, chart_type) :
       \E w \in {calculate_insights_with_fallback(df, chart_type, text_stats)} :
           /\ call_pc' = IF w.escaped THEN "escaped" ELSE "returned"
           /\ result' = IF w.escaped THEN <<>> ELSE <<w.value>>
           /\ ran' = <<[routine |-> w.routine, path |-> w.path,
                        raised |-> w.raised, built |-> w.built]>>
    /\ df' = DatasetAfterCall(df, chart_type)
    /\ UNCHANGED <<df_entry, chart_type, serviceVars>>

\* Bounds of the general input family
MaxRows == 2

\* Jan 11 07:00; the same day 19:00; Jan 12 07:00; Feb 11 07:00
EngineTimes == {889200, 932400, 975600, 3567600}

\* A race won at 95 WPM or lost at 40 WPM
EngineRow(t, rank) ==
    ProcessRow(RawRow(0, IF rank = 1 THEN 95 ELSE 40, IF rank = 1 THEN 980 ELSE 910,
                      rank, 3, 1, t))
EngineRows == {EngineRow(t, rank) : t \in EngineTimes, rank \in 1..2}

\* The rows rs numbered 1..n in order, or n..1
Numbered(rs, asc) ==
    [i \in 1..Len(rs) |->
        [rs[i] EXCEPT !.race_num = IF asc THEN i ELSE Len(rs) + 1 - i]]

RowSeqs(rows, maxLen) == UNION {[1..n -> rows] : n \in 1..maxLen}

EngineDatasets ==
    {Numbered(rs, asc) : rs \in RowSeqs(EngineRows, MaxRows), asc \in BOOLEAN}

EngineViews == KnownViews \cup {"heatmap"}

Clients == {"c1", "c2"}

ServiceIdle ==
    /\ df_global = <<>>
    /\ client_pc = [c \in Clients |-> "idle"]
    /\ pending = [c \in Clients |-> <<>>]
    /\ supplied = [c \in Clients |-> <<>>]
    /\ loaded_ok = FALSE
    /\ response = [c \in Clients |-> <<>>]

EngineInitOn(datasets, views) ==
    /\ df \in datasets
    /\ df_entry = df
    /\ chart_type \in views
    /\ call_pc = "ready"
    /\ result = <<>>
    /\ ran = <<>>
    /\ ServiceIdle

EngineInit == EngineInitOn(EngineDatasets, EngineViews)
EngineNext == Call
SpecEngine == EngineInit /\ [][EngineNext]_vars

-----------------------------------------------------------------------------
(* Properties of one call (SpecEngine).                                    *)

Returned_ == call_pc = "returned"
Insights == result[1].insights
DistinctOf(d, col) == {d[i][col] : i \in 1..Len(d)}

\* C1: for every view identifier, known or not, and every non-empty dataset,
\* the call returns a non-empty list of sentences and a boolean has_insights,
\* and no exception leaves it.
C1_AlwaysAList ==
    Len(df_entry) >= 1 =>
        /\ call_pc # "escaped"
        /\ Returned_ =>
              /\ Len(result) = 1
              /\ Len(Insights) >= 1
              /\ result[1].has_insights \in BOOLEAN

\* a call during which the routine raised, and which returned all the same
C1_Witness ==
    /\ Returned_ /\ Len(df_entry) >= 1
    /\ ran[1].raised
    /\ Len(Insights) >= 1

\* C2: when the routine raises, the call returns exactly the three fallback
\* sentences (with the dataset's row count) and has_insights = FALSE, and none
\* of the sentences the routine had built; every normal return of a routine,
\* its own "need more data" list included, carries has_insights = TRUE and the
\* routine's list.
C2_FallbackOnlyOnRaise ==
    Returned_ =>
        /\ ran[1].raised =>
              /\ result[1].has_insights = FALSE
              /\ Len(Insights) = 3
              /\ Insights[1] = S("Insufficient data for detailed analysis", <<>>)
              /\ Insights[2] = S("Showing {} races", <<Len(df_entry)>>)
              /\ Insights[3] = S("Upload more data for insights", <<>>)
              /\ \A i \in 1..Len(ran[1].built) : \A j \in 1..Len(Insights) :
                    Insights[j] # ran[1].built[i]
        /\ ~ran[1].raised =>
              /\ result[1].has_insights = TRUE
              /\ Insights = ran[1].built

\* a routine that raised after it had built some of its sentences
C2_Witness ==
    /\ Returned_
    /\ ran[1].raised
    /\ Len(ran[1].built) > 0
    /\ result[1].has_insights = FALSE

\* C3: for a view identifier outside the dispatcher's known set the result is
\* the fixed three-sentence placeholder with has_insights = TRUE, and no
\* per-view routine is run.
C3_UnknownViewPlaceholder ==
    (Returned_ /\ chart_type \notin KnownViews) =>
        /\ result[1].has_insights = TRUE
        /\ Len(Insights) = 3
        /\ Insights[1] = S("Chart insights not yet implemented", <<>>)
        /\ Insights[2] = S("Showing data for " \o chart_type, <<>>)
        /\ Insights[3] = S("More insights coming soon", <<>>)
        /\ ran[1].routine = "none"

C3_Witness ==
    /\ Returned_
    /\ chart_type \notin KnownViews
    /\ Len(Insights) = 3

C6_SingleMonthMessage ==
    (Returned_ /\ Cardinality(DistinctOf(df_entry, "year_month")) < 2) =>
        /\ chart_type = "performance-over-time" =>
              /\ result[1] = [insights |-> NeedMonthsPerformance, has_insights |-> TRUE]
              /\ ran[1].path = "need_more"
        /\ chart_type = "win-rate-monthly" =>
              /\ result[1] = [insights |-> NeedMonthsWinRate, has_insights |-> TRUE]
              /\ ran[1].path = "need_more"
              /\ \A i \in 1..Len(Insights) :
                    Insights[i].text # "Win streak record: {} consecutive victories"

\* two races of the same month, on different days
C6_Witness ==
    /\ Returned_
    /\ chart_type = "win-rate-monthly"
    /\ Len(df_entry) = 2
    /\ Cardinality(DistinctOf(df_entry, "year_month")) = 1
    /\ Cardinality(DistinctOf(df_entry, "date")) = 2
    /\ result[1].has_insights = TRUE

\* C7 (as claimed): daily-performance on a single date, and hourly-performance
\* on a single hour, return a minimal non-computed message list from the
\* routine itself, without raising and without the generic fallback.
C7_SingleGroupMessage ==
    /\ (Returned_ /\ chart_type = "daily-performance"
          /\ Cardinality(DistinctOf(df_entry, "date")) < 2) =>
            /\ ~ran[1].raised
            /\ ran[1].path = "need_more"
            /\ result[1].has_insights = TRUE
    /\ (Returned_ /\ chart_type = "hourly-performance"
          /\ Cardinality(DistinctOf(df_entry, "hour")) < 2) =>
            /\ ~ran[1].raised
            /\ ran[1].path = "need_more"
            /\ result[1].has_insights = TRUE


-----------------------------------------------------------------------------
(* main.py: the HTTP service.  Every handler reads and writes the one       *)
(* module-level df_global.  A handler runs from one await to the next       *)
(* without interruption: upload_data has a single await (file.read()), the  *)
(* other handlers none.  The plotly figure a chart handler builds beside    *)
(* the insights is not modelled, except that building it from an empty      *)
(* frame may raise.                                                         *)

\* file.filename, as its characters
CsvName == <<"r", ".", "c", "s", "v">>
TxtName == <<"r", ".", "t", "x", "t">>
BareName == <<"c", "s", "v">>

\* str.endswith
EndsWith(s, suffix) ==
    /\ Len(s) >= Len(suffix)
    /\ SubSeq(s, Len(s) - Len(suffix) + 1, Len(s)) = suffix

DotCsv == <<".", "c", "s", "v">>

\* An uploaded file.  parses is whether pl.read_csv and process_race_data
\* accept the content (a CSV with the expected columns and timestamps);
\* rows are its data rows, in file order.
UploadFile(filename, parses, rows) ==
    [filename |-> filename, parses |-> parses, rows |-> rows]

HTTPException(status_code, endpoint, detail) ==
    [status |-> status_code, endpoint |-> endpoint, body |-> [detail |-> detail]]

Ok(endpoint, body) == [status |-> 200, endpoint |-> endpoint, body |-> body]

\* The stats dict of upload_data, use_sample_data and get_stats, for a frame
\* with at least one row
Stats(d) ==
    [total_races |-> Len(d),
     avg_wpm |-> <<SumSeq(Column(d, "wpm")), Len(d)>>,
     best_wpm |-> Column(d, "wpm")[ArgMaxInt(Column(d, "wpm"))],
     total_wins |-> SumSeq(Column(d, "win")),
     avg_accuracy |-> <<SumSeq(Column(d, "accuracy")), Len(d)>>,
     date_range |-> [start |-> Column(d, "datetime_utc")[ArgMinInt(Column(d, "datetime_utc"))],
                     end |-> Column(d, "datetime_utc")[ArgMaxInt(Column(d, "datetime_utc"))]]]

\* float(df_global["wpm"].mean()) is float(None) on a frame without rows
StatsRaises(d) == Len(d) = 0

\* What a load handler answers once it has stored g in df_global
LoadResponse(endpoint, message, failure, g) ==
    IF StatsRaises(g) THEN HTTPException(500, endpoint, failure)
    ELSE Ok(endpoint, [message |-> message, stats |-> Stats(g)])

\* upload_data up to `await file.read()`
UploadStart(c, file) ==
    /\ client_pc[c] = "idle"
    /\ IF ~EndsWith(file.filename, DotCsv)
       THEN /\ response' = [response EXCEPT ![c] =
                               <<HTTPException(400, "/upload-data", "File must be a CSV")>>]
            /\ UNCHANGED <<client_pc, pending>>
       ELSE /\ client_pc' = [client_pc EXCEPT ![c] = "reading"]
            /\ pending' = [pending EXCEPT ![c] = <<file>>]
            /\ UNCHANGED response
    /\ UNCHANGED <<df_global, supplied, loaded_ok, engineVars>>

\* upload_data from the return of `await file.read()` to its end
UploadFinish(c) ==
    /\ client_pc[c] = "reading"
    /\ client_pc' = [client_pc EXCEPT ![c] = "idle"]
    /\ pending' = [pending EXCEPT ![c] = <<>>]
    /\ IF ~pending[c][1].parses
       THEN /\ response' = [response EXCEPT ![c] =
                               <<HTTPException(500, "/upload-data", "Error processing data")>>]
            /\ UNCHANGED <<df_global, supplied, loaded_ok>>
       ELSE \E g \in {process_race_data(pending[c][1].rows)} :
               /\ df_global' = <<g>>
               /\ supplied' = [supplied EXCEPT ![c] = <<g>>]
               /\ loaded_ok' = (loaded_ok \/ ~StatsRaises(g))
               /\ response' = [response EXCEPT ![c] =
                                  <<LoadResponse("/upload-data", "Data processed successfully",
                                                 "Error processing data", g)>>]
    /\ UNCHANGED engineVars

\* use_sample_data; sample is <<>> when race_data.csv cannot be read from the
\* working directory, <<rows>> otherwise
UseSampleData(c, sample) ==
    /\ client_pc[c] = "idle"
    /\ IF sample = <<>>
       THEN /\ response' = [response EXCEPT ![c] =
                               <<HTTPException(500, "/use-sample-data", "Error loading sample data")>>]
            /\ UNCHANGED <<df_global, supplied, loaded_ok>>
       ELSE \E g \in {process_race_data(sample[1])} :
               /\ df_global' = <<g>>
               /\ supplied' = [supplied EXCEPT ![c] = <<g>>]
               /\ loaded_ok' = (loaded_ok \/ ~StatsRaises(g))
               /\ response' = [response EXCEPT ![c] =
                                  <<LoadResponse("/use-sample-data", "Sample data loaded successfully",
                                                 "Error loading sample data", g)>>]
    /\ UNCHANGED <<client_pc, pending, engineVars>>

NoData(endpoint) == HTTPException(400, endpoint, "No data uploaded")

\* get_stats answering from the dataset the asking client loaded itself
GetStatsOwn(c) ==
    /\ client_pc[c] = "idle"
    /\ response' = [response EXCEPT ![c] =
          <<IF supplied[c] = <<>> THEN NoData("/stats")
            ELSE IF StatsRaises(supplied[c][1])
                 THEN HTTPException(500, "/stats", "Internal Server Error")
                 ELSE Ok("/stats", Stats(supplied[c][1]))>>]
    /\ UNCHANGED <<df_global, client_pc, pending, supplied, loaded_ok, engineVars>>

\* get_stats
GetStats(c) ==
    /\ client_pc[c] = "idle"
    /\ response' = [response EXCEPT ![c] =
          <<IF df_global = <<>> THEN NoData("/stats")
            ELSE IF StatsRaises(df_global[1])
                 THEN HTTPException(500, "/stats", "Internal Server Error")
                 ELSE Ok("/stats", Stats(df_global[1]))>>]
    /\ UNCHANGED <<df_global, client_pc, pending, supplied, loaded_ok, engineVars>>

\* json.loads(fig.to_json()): of the figure, the frame it was drawn from
Figure(df_figure) == [drawn_from |-> df_figure]

\* The body of a chart response: the figure's JSON updated with the dict of
\* calculate_insights_with_fallback
ChartData(fig, w) ==
    [figure |-> fig, insights |-> w.value.insights, has_insights |-> w.value.has_insights]

\* The frames df_global can name once the handler has yielded to the event
\* loop: the one it names now, or the one an upload that was reading stores
AfterYield ==
    {df_global[1]} \cup
        {process_race_data(pending[u][1].rows) :
            u \in {v \in Clients : client_pc[v] = "reading" /\ pending[v][1].parses}}

\* A chart handler that yields between its two reads of df_global
GetChartYielding(c, view, figure_ok) ==
    /\ client_pc[c] = "idle"
    /\ IF df_global = <<>>
       THEN response' = [response EXCEPT ![c] = <<NoData(view)>>]
       ELSE IF Len(df_global[1]) = 0 /\ ~figure_ok
       THEN response' = [response EXCEPT ![c] =
                            <<HTTPException(500, view, "Error generating chart")>>]
       ELSE \E df_figure \in {df_global[1]}, df_insights \in AfterYield :
            \E text_stats \in TextStatsFor(df_insights, view) :
            \E w \in {calculate_insights_with_fallback(df_insights, view, text_stats)} :
               response' = [response EXCEPT ![c] = <<Ok(view, ChartData(Figure(df_figure), w))>>]
    /\ UNCHANGED <<df_global, client_pc, pending, supplied, loaded_ok, engineVars>>

\* A GET /charts/<view> handler; figure_ok is whether the figure code, which
\* runs before the insights, succeeds.  The handler reads df_global for the
\* figure (df_figure) and again for the insights (df_insights); it has no
\* await, so the event loop runs nothing between the two reads.
GetChart(c, view, figure_ok) ==
    /\ client_pc[c] = "idle"
    /\ IF df_global = <<>>
       THEN response' = [response EXCEPT ![c] = <<NoData(view)>>]
       ELSE IF Len(df_global[1]) = 0 /\ ~figure_ok
       THEN response' = [response EXCEPT ![c] =
                            <<HTTPException(500, view, "Error generating chart")>>]
       ELSE \E df_figure \in {df_global[1]}, df_insights \in {df_global[1]} :
            \E text_stats \in TextStatsFor(df_insights, view) :
            \E w \in {calculate_insights_with_fallback(df_insights, view, text_stats)} :
               response' = [response EXCEPT ![c] = <<Ok(view, ChartData(Figure(df_figure), w))>>]
    /\ UNCHANGED <<df_global, client_pc, pending, supplied, loaded_ok, engineVars>>

\* The files and views of the checked service
\* Feb 11 07:00 lost, Jan 11 07:00 won: two months, file order not race order
RowsA == <<RawRow(2, 40, 910, 2, 3, 1, 3567600), RawRow(1, 95, 980, 1, 3, 1, 889200)>>
\* one race
RowsB == <<RawRow(1, 60, 950, 1, 2, 2, 932400)>>
\* the shipped race_data.csv stands as two races of one day
SampleRows == <<RawRow(1, 70, 960, 2, 4, 3, 889200), RawRow(2, 80, 970, 1, 4, 3, 932400)>>

ServiceFiles ==
    {UploadFile(CsvName, TRUE, RowsA), UploadFile(CsvName, TRUE, RowsB),
     UploadFile(CsvName, TRUE, <<>>), UploadFile(CsvName, FALSE, <<>>),
     UploadFile(TxtName, TRUE, RowsA), UploadFile(BareName, TRUE, RowsB)}

ServiceSamples == {<<>>, <<SampleRows>>}

ServiceViews == {"wpm-distribution", "win-rate-monthly", "rolling-average"}

Init ==
    /\ df = <<>>
    /\ df_entry = <<>>
    /\ chart_type = "none"
    /\ call_pc = "unused"
    /\ result = <<>>
    /\ ran = <<>>
    /\ ServiceIdle

Next ==
    \E c \in Clients :
        \/ \E file \in ServiceFiles : UploadStart(c, file)
        \/ UploadFinish(c)
        \/ \E sample \in ServiceSamples : UseSampleData(c, sample)
        \/ GetStats(c)
        \/ \E view \in ServiceViews, figure_ok \in BOOLEAN : GetChart(c, view, figure_ok)

Spec == Init /\ [][Next]_vars

-----------------------------------------------------------------------------
(* Properties of the service (Spec).                                       *)

\* What a chart or stats request answers when served from dataset d alone
AnswerFrom(d, endpoint) ==
    IF endpoint = "/stats" THEN Stats(d)
    ELSE ChartData(Figure(d), calculate_insights_with_fallback(d, endpoint, <<>>))

\* C4: requests are independent: the insights or stats a client receives for a
\* chart or stats request are those of the dataset that client itself loaded
\* last, whatever upload-data or use-sample-data requests other clients made
\* in between.
C4_OwnDatasetOnly ==
    \A c \in Clients :
        (/\ response[c] # <<>>
         /\ supplied[c] # <<>>
         /\ ~StatsRaises(supplied[c][1])
         /\ response[c][1].status = 200
         /\ response[c][1].endpoint \in ServiceViews \cup {"/stats"})
        => response[c][1].body = AnswerFrom(supplied[c][1], response[c][1].endpoint)

-----------------------------------------------------------------------------
(* One call of rolling-average on long datasets (SpecRolling).             *)

\* Rows beyond RollingWindow in the longest dataset
MaxExtra == 3

\* The row counts tried: around the edges of the progress report, and from
\* RollingWindow up
RollingLengths ==
    {1, 2, RecentRaces - 1, RecentRaces, RecentRaces + 1, 60, RollingUnlock - 1}
        \cup RollingWindow..(RollingWindow + MaxExtra)

\* Race numbers are distinct but are not the row positions
RaceNumber(k) == 2 * k + 5

\* The WPM of the k-th race: a flat run, or a spike, dip or step at race p
PatternWpm(kind, p, k) ==
    CASE kind = "flat" -> 60
      [] kind = "spike" -> IF k = p THEN 90 ELSE 50
      [] kind = "dip" -> IF k = p THEN 30 ELSE 50
      [] kind = "step" -> IF k < p THEN 40 ELSE 80

PatternKinds == {"flat", "spike", "dip", "step"}

PatternPositions(n) ==
    {1, 2, n - RecentRaces, n - RecentRaces + 1, n - 1, n,
     RollingWindow, RollingWindow + 1} \cap 1..n

\* A file of n races, listed in race order or newest first
RollingRows(n, kind, p, asc) ==
    [i \in 1..n |->
        LET k == IF asc THEN i ELSE n + 1 - i
        IN  ProcessRow(RawRow(RaceNumber(k), PatternWpm(kind, p, k), 950, 2, 3, 1,
                              889200 + 60 * k))]

RollingDatasets ==
    UNION {{RollingRows(n, kind, p, asc) :
               kind \in PatternKinds, p \in PatternPositions(n), asc \in BOOLEAN} :
           n \in RollingLengths}

RollingInit == EngineInitOn(RollingDatasets, {"rolling-average"})
SpecRolling == RollingInit /\ [][EngineNext]_vars

-----------------------------------------------------------------------------
(* Properties of rolling-average (SpecRolling).                            *)

\* For each of the rows d[a..b], its place in race_num order (1 = earliest)
RECURSIVE RaceRanksOf(_, _, _)
RaceRanksOf(d, a, b) ==
    IF b < a THEN <<>>
    ELSE IF a = b
    THEN <<Cardinality({j \in 1..Len(d) : d[j].race_num <= d[a].race_num})>>
    ELSE RaceRanksOf(d, a, (a + b) \div 2) \o RaceRanksOf(d, (a + b) \div 2 + 1, b)
RaceRanks(d) == RaceRanksOf(d, 1, Len(d))

\* Total WPM of the rows among d[a..b] whose place in race order is in lo..hi
RECURSIVE WpmOfRacesIn(_, _, _, _, _, _)
WpmOfRacesIn(d, ranks, lo, hi, a, b) ==
    IF b < a THEN 0
    ELSE IF a = b THEN (IF ranks[a] >= lo /\ ranks[a] <= hi THEN d[a].wpm ELSE 0)
    ELSE WpmOfRacesIn(d, ranks, lo, hi, a, (a + b) \div 2)
           + WpmOfRacesIn(d, ranks, lo, hi, (a + b) \div 2 + 1, b)
WpmOfRaces(d, ranks, lo, hi, n) == WpmOfRacesIn(d, ranks, lo, hi, 1, n)

RollingReturned == Returned_ /\ chart_type = "rolling-average"

\* C8: with 1 <= n < 100 rows rolling-average returns without raising and
\* reports the mean WPM of all n rows, exactly 100 - n races still needed, the
\* mean WPM of the last min(50, n) rows in race_num order, and progress n/100.
C8_ProgressReport ==
    (RollingReturned /\ Len(df_entry) >= 1 /\ Len(df_entry) < 100) =>
        \E ranks \in {RaceRanks(df_entry)} :
            LET n == Len(df_entry)
                m == IF n < 50 THEN n ELSE 50
            IN  /\ ~ran[1].raised
                /\ result[1].has_insights
                /\ Insights[1] = S("Current average: {} WPM",
                                   <<WpmOfRaces(df_entry, ranks, 1, n, n), n>>)
                /\ Insights[2] = S("Need {} more races for 100-race rolling average",
                                   <<100 - n>>)
                /\ Insights[4] = S("Recent {} races: {} WPM",
                                   <<m, WpmOfRaces(df_entry, ranks, n - m + 1, n, n), m>>)
                /\ Insights[5] = S("Progress: {}/100 races completed", <<n>>)

\* 60 races listed newest first, the recent 50 faster than the whole: 40 more
\* races needed
C8_Witness ==
    /\ RollingReturned
    /\ Len(df_entry) = 60
    /\ df_entry[1].race_num > df_entry[2].race_num
    /\ Insights[2].args = <<40>>
    /\ Insights[4].args[1] = 50
    /\ Insights[4].args[2] * 60 > Insights[1].args[1] * 50

\* Total WPM of the 100-row window ending at place e of race order
WindowTotal(d, ranks, e) == WpmOfRaces(d, ranks, e - 99, e, Len(d))

\* The earliest window end whose total is the largest
EarliestBest(d, ranks) ==
    CHOOSE e \in 100..Len(d) :
        /\ \A f \in 100..Len(d) : WindowTotal(d, ranks, f) <= WindowTotal(d, ranks, e)
        /\ \A f \in 100..(e - 1) : WindowTotal(d, ranks, f) < WindowTotal(d, ranks, e)

\* A window end whose total is the smallest
Worst(d, ranks) ==
    CHOOSE e \in 100..Len(d) :
        \A f \in 100..Len(d) : WindowTotal(d, ranks, f) >= WindowTotal(d, ranks, e)

\* race_num of the row at place e of race order
RaceAt(d, ranks, e) == d[CHOOSE i \in 1..Len(d) : ranks[i] = e].race_num

\* C9: with at least 100 rows rolling-average reports, in race_num order, the
\* mean of the last 100 rows as the latest value, the maximum and minimum over
\* all complete 100-row windows, and as peak race the race_num of the last row
\* of the earliest window attaining the maximum.
C9_RollingReport ==
    (RollingReturned /\ Len(df_entry) >= 100) =>
        \E ranks \in {RaceRanks(df_entry)} :
            \E best \in {WindowTotal(df_entry, ranks, EarliestBest(df_entry, ranks))} :
                /\ ~ran[1].raised
                /\ Insights[1] = S("Your last 100 races averaged {} WPM",
                                   <<WindowTotal(df_entry, ranks, Len(df_entry)), 100>>)
                /\ Insights[3] = S("Best 100-race streak peaked at {} WPM", <<best, 100>>)
                /\ Insights[4] = S("Peak performance occurred around race #{}",
                                   <<RaceAt(df_entry, ranks, EarliestBest(df_entry, ranks))>>)
                /\ Insights[6] = S("Speed range: {} WPM (worst streak) to {} WPM (best)",
                                   <<WindowTotal(df_entry, ranks, Worst(df_entry, ranks)),
                                     100, best, 100>>)

\* 102 races listed newest first; the windows ending at the 100th and 101st
\* race tie for the maximum, the latest window is slower, and the peak is the
\* 100th race
C9_Witness ==
    /\ RollingReturned
    /\ Len(df_entry) = 102
    /\ df_entry[1].race_num > df_entry[2].race_num
    /\ \E ranks \in {RaceRanks(df_entry)} :
          /\ WindowTotal(df_entry, ranks, 100) = WindowTotal(df_entry, ranks, 101)
          /\ WindowTotal(df_entry, ranks, 102) < WindowTotal(df_entry, ranks, 101)
          /\ Insights[4].args = <<RaceAt(df_entry, ranks, 100)>>
    /\ Insights[4].args # <<100>>

-----------------------------------------------------------------------------
(* One call of win-rate-monthly on every short win sequence (SpecStreak).  *)

\* The longest win sequence tried
MaxStreakRows == 7

WinSequences == UNION {[1..n -> {0, 1}] : n \in 2..MaxStreakRows}

\* One race per entry of wins, listed in race order or newest first; the
\* first listed race is in January, the others in February, so that the
\* dataset spans two months
StreakRows(wins, asc) ==
    Numbered([i \in 1..Len(wins) |->
                 EngineRow(IF i = 1 THEN 889200 ELSE 3567600, 2 - wins[i])], asc)

StreakDatasets == {StreakRows(wins, asc) : wins \in WinSequences, asc \in BOOLEAN}

StreakInit == EngineInitOn(StreakDatasets, {"win-rate-monthly"})
SpecStreak == StreakInit /\ [][EngineNext]_vars

\* The win flags of d in race_num order
WinsInRaceOrder(d) ==
    [k \in 1..Len(d) |-> d[CHOOSE i \in 1..Len(d) : RaceRanks(d)[i] = k].win]

\* The length of the longest run of consecutive 1s in wins
LongestRun(wins) ==
    LET runs == {<<i, j>> \in (1..Len(wins)) \X (1..Len(wins)) :
                    i <= j /\ \A k \in i..j : wins[k] = 1}
    IN  IF runs = {} THEN 0
        ELSE LET r == CHOOSE r \in runs : \A q \in runs : q[2] - q[1] <= r[2] - r[1]
             IN  r[2] - r[1] + 1

StreakComputed ==
    /\ Returned_
    /\ chart_type = "win-rate-monthly"
    /\ ran[1].path = "computed"

\* C10: the "Win streak record" of win-rate-monthly is the length of the
\* longest run of consecutive wins in race_num order, a run still open at the
\* last race included.
C10_LongestWinRun ==
    StreakComputed =>
        Insights[4] = S("Win streak record: {} consecutive victories",
                        <<LongestRun(WinsInRaceOrder(df_entry))>>)

\* The wins 1,1,0,1,1 listed newest first: the record is the open run of 2
C10_Witness ==
    /\ StreakComputed
    /\ df_entry[1].race_num > df_entry[2].race_num
    /\ WinsInRaceOrder(df_entry) = <<1, 1, 0, 1, 1>>
    /\ Insights[4].args = <<2>>

\* The wins 1,1,0,1,1,1,0: the record is the closed run of 3
C10_WitnessClosedRun ==
    /\ StreakComputed
    /\ WinsInRaceOrder(df_entry) = <<1, 1, 0, 1, 1, 1, 0>>
    /\ Insights[4].args = <<3>>

-----------------------------------------------------------------------------
(* One call of win-rate-after-win on every short win sequence              *)
(* (SpecAfterWin).                                                         *)

AfterWinSequences == UNION {[1..n -> {0, 1}] : n \in 1..MaxStreakRows}

RECURSIVE Pow2(_)
Pow2(k) == IF k = 0 THEN 1 ELSE 2 * Pow2(k - 1)

\* One race per entry of wins (wins is in race order), listed in race order
\* or newest first.  The k-th race has WPM 30 + 2^(k-1), so that a total of
\* WPMs over a group of races tells which races are in the group.
AfterWinRows(wins, asc) ==
    [i \in 1..Len(wins) |->
        LET k == IF asc THEN i ELSE Len(wins) + 1 - i
        IN  ProcessRow(RawRow(RaceNumber(k), 30 + Pow2(k - 1), 900 + 10 * k,
                              2 - wins[k], 3, 1, 889200 + 60 * k))]

AfterWinDatasets == {AfterWinRows(wins, asc) : wins \in AfterWinSequences, asc \in BOOLEAN}

AfterWinInit == EngineInitOn(AfterWinDatasets, {"win-rate-after-win"})
SpecAfterWin == AfterWinInit /\ [][EngineNext]_vars

AfterWinReturned == Returned_ /\ chart_type = "win-rate-after-win"
AfterWinComputed == AfterWinReturned /\ ran[1].path = "computed"

\* C11 (as claimed): the longest streak reported by win-rate-after-win is the
\* length of the longest run of consecutive wins in race_num order, whenever
\* the routine computes insights.
C11_LongestStreak ==
    AfterWinComputed =>
        Insights[4] = S("Your longest active streak: {} consecutive wins",
                        <<LongestRun(WinsInRaceOrder(df_entry))>>)

\* The rows of d that are not first in race order and whose predecessor in
\* race order has win flag w
FollowersOf(d, ranks, w) ==
    {i \in 1..Len(d) :
        /\ ranks[i] >= 2
        /\ \E j \in 1..Len(d) : ranks[j] = ranks[i] - 1 /\ d[j].win = w}

RaceNums(rows) == {rows[i].race_num : i \in 1..Len(rows)}

RECURSIVE WpmOver(_, _)
WpmOver(d, rows) ==
    IF rows = {} THEN 0
    ELSE LET i == CHOOSE i \in rows : TRUE
         IN  d[i].wpm + WpmOver(d, rows \ {i})

\* C18: win-rate-after-win places every race but the first in race_num order
\* in exactly one of two groups: post-win when the immediately preceding race
\* was a win, post-loss otherwise; the groups are disjoint and hold n - 1
\* races together; the next-race speed reported is the mean WPM of post-win.
C18_OneRaceLookback ==
    AfterWinReturned =>
        \E ranks \in {RaceRanks(df_entry)} :
        \E post_win \in {PostWinRaces(SortBy(df_entry, "race_num"))} :
        \E post_loss \in {PostLossRaces(SortBy(df_entry, "race_num"))} :
            /\ RaceNums(post_win) = {df_entry[i].race_num : i \in FollowersOf(df_entry, ranks, 1)}
            /\ RaceNums(post_loss) = {df_entry[i].race_num : i \in FollowersOf(df_entry, ranks, 0)}
            /\ RaceNums(post_win) \cap RaceNums(post_loss) = {}
            /\ Len(post_win) + Len(post_loss) = Len(df_entry) - 1
            /\ Cardinality(RaceNums(post_win)) = Len(post_win)
            /\ Cardinality(RaceNums(post_loss)) = Len(post_loss)
            /\ (ran[1].path = "computed") = (post_win # <<>>)
            /\ ran[1].path = "computed" =>
                  Insights[1] = S("After winning, your next race speed: {} WPM",
                                  <<WpmOver(df_entry, FollowersOf(df_entry, ranks, 1)),
                                    Cardinality(FollowersOf(df_entry, ranks, 1))>>)

\* Five races listed newest first, with two races after wins and two after
\* losses
C18_Witness ==
    /\ AfterWinComputed
    /\ Len(df_entry) = 5
    /\ df_entry[1].race_num > df_entry[2].race_num
    /\ Cardinality(FollowersOf(df_entry, RaceRanks(df_entry), 1)) = 2
    /\ Cardinality(FollowersOf(df_entry, RaceRanks(df_entry), 0)) = 2
    /\ Insights[1].args[2] = 2

-----------------------------------------------------------------------------
(* One call of time-between-races on short timelines (SpecTiming).         *)

\* The longest timeline tried
MaxTimingRows == 5

\* Gaps in seconds: none, exactly 5 minutes, a second more, 20 minutes, 2 hours
TimingGaps == {0, SessionGap, SessionGap + 1, 1200, LongFrom}

GapSequences == UNION {[1..n -> TimingGaps] : n \in 0..(MaxTimingRows - 1)}

\* The races of a timeline: the first at Jan 11 07:00, race k + 1 gaps[k]
\* seconds after race k; the k-th has WPM 30 + 2^(k-1); listed oldest or
\* newest first
TimingRows(gaps, asc) ==
    [i \in 1..(Len(gaps) + 1) |->
        LET k == IF asc THEN i ELSE Len(gaps) + 2 - i
        IN  ProcessRow(RawRow(RaceNumber(k), 30 + Pow2(k - 1), 950, 2, 3, 1,
                              889200 + SumRange(gaps, 1, k - 1)))]

TimingDatasets == {TimingRows(gaps, asc) : gaps \in GapSequences, asc \in BOOLEAN}

TimingInit == EngineInitOn(TimingDatasets, {"time-between-races"})
SpecTiming == TimingInit /\ [][EngineNext]_vars

TimingReturned == Returned_ /\ chart_type = "time-between-races"
TimingComputed == TimingReturned /\ ran[1].path = "computed"

\* The timestamp of the k-th race of d in timestamp order
TimeAt(d, k) ==
    CHOOSE t \in {d[i].datetime_utc : i \in 1..Len(d)} :
        /\ Cardinality({i \in 1..Len(d) : d[i].datetime_utc < t}) < k
        /\ k <= Cardinality({i \in 1..Len(d) : d[i].datetime_utc <= t})

\* Races k and k + 1 in timestamp order are at most 5 minutes apart
Joined(d, k) == TimeAt(d, k + 1) - TimeAt(d, k) <= 5 * 60

\* The maximal runs of at least 2 races joined by gaps of at most 5 minutes,
\* as <<first, last>> places in timestamp order
SessionRuns(d) ==
    {r \in (1..Len(d)) \X (1..Len(d)) :
        /\ r[1] < r[2]
        /\ \A k \in r[1]..(r[2] - 1) : Joined(d, k)
        /\ r[1] = 1 \/ ~Joined(d, r[1] - 1)
        /\ r[2] = Len(d) \/ ~Joined(d, r[2])}

\* Their lengths, in order
ExpectedSessions(d) ==
    LET runs == SessionRuns(d)
        firsts == SortedSeqOf({r[1] : r \in runs})
    IN  [j \in 1..Len(firsts) |->
            LET r == CHOOSE r \in runs : r[1] = firsts[j]
            IN  r[2] - r[1] + 1]

\* C19: scanning in timestamp order, a gap of more than 5 minutes ends the
\* session and a gap of at most 5 minutes extends it; the recorded session
\* lengths are those of the maximal runs of at least 2 races joined by gaps
\* of at most 5 minutes, in order, a run still open at the last race included.
C19_SessionLengths ==
    TimingReturned =>
        \E expected \in {ExpectedSessions(df_entry)} :
            /\ SessionRaces(TimeDiffs(SortBy(df_entry, "datetime_utc"))) = expected
            /\ (ran[1].path = "computed"
                  /\ Insights[5].text = "Average session length: {} races"
                  /\ expected # <<>>)
               => Insights[5].args = <<SumSeq(expected), Len(expected)>>

\* Five races listed newest first: a session of 2, then a gap of 5 minutes
\* and a second, then a session of 3 open at the last race
C19_Witness ==
    /\ TimingComputed
    /\ Len(df_entry) = 5
    /\ df_entry[1].datetime_utc > df_entry[5].datetime_utc
    /\ TimeAt(df_entry, 2) - TimeAt(df_entry, 1) = 300
    /\ TimeAt(df_entry, 3) - TimeAt(df_entry, 2) = 301
    /\ ExpectedSessions(df_entry) = <<2, 3>>
    /\ SessionRaces(TimeDiffs(SortBy(df_entry, "datetime_utc"))) = <<2, 3>>

\* C14 (as claimed): the rest interval reported as optimal, which is always
\* "15-30 minutes", holds at least 5 following races and has the highest mean
\* following-race WPM among the intervals holding at least 5.
C14_OptimalIsBest ==
    TimingComputed =>
        \E df_sorted \in {SortBy(df_entry, "datetime_utc")} :
            LET after(kind) ==
                    RacesAfter(df_sorted, TimeDiffs(df_sorted), kind, Len(df_sorted) - 1)
                mean(kind) == MeanOf(after(kind), "wpm")
            IN  /\ Len(after("optimal")) >= 5
                /\ \A kind \in {"quick", "long"} :
                      Len(after(kind)) >= 5 =>
                          ~RatLess(mean("optimal")[1], mean("optimal")[2],
                                   mean(kind)[1], mean(kind)[2])

-----------------------------------------------------------------------------
(* main.py: GET /charts/time-between-races, with the chart data it builds. *)
(* Gaps are kept in seconds; a bin edge of h hours is h * SecondsPerHour.  *)

\* bins, in hours; float('inf') closes the last one
bins == <<0, 1, 3, 6, 12, 24, 48, 168>>
labels == <<"0-1h", "1-3h", "3-6h", "6-12h", "12-24h", "24-48h", "48h-1wk", "1wk+">>

\* the sample count a bin needs to be charted
MinBinCount == 5

\* df_pandas['time_diff_hours']: diff() of the sorted timestamps, the first
\* row's NaN filled with 0
TimeDiffColumn(df_sorted) ==
    [i \in 1..Len(df_sorted) |->
        IF i = 1 THEN 0
        ELSE df_sorted[i].datetime_utc - df_sorted[i - 1].datetime_utc]

\* Bin j holds x: intervals closed on the left instead
InBinLeftClosed(x, j) ==
    /\ bins[j] * SecondsPerHour <= x
    /\ j < Len(bins) => x < bins[j + 1] * SecondsPerHour

\* Bin j holds x, under pd.cut's defaults right=True, include_lowest=False
InBin(x, j) ==
    /\ bins[j] * SecondsPerHour < x
    /\ j < Len(bins) => x <= bins[j + 1] * SecondsPerHour

\* pd.cut(x, bins=bins, labels=labels): the bin index, or 0 for NaN
Cut(x) ==
    IF \E j \in 1..Len(bins) : InBin(x, j)
    THEN CHOOSE j \in 1..Len(bins) : InBin(x, j)
    ELSE 0

\* df_pandas['time_bin'], as bin indexes
TimeBinColumn(df_sorted) ==
    [i \in 1..Len(df_sorted) |-> Cut(TimeDiffColumn(df_sorted)[i])]

\* round(2) of a mean sum / count, in hundredths, halves to even
Round2(sum, count) ==
    LET q == (100 * sum) \div count
        r == (100 * sum) % count
    IN  IF 2 * r > count THEN q + 1
        ELSE IF 2 * r = count THEN q + (q % 2)
        ELSE q

\* groupby('time_bin', observed=False).agg(mean, count): one row per label,
\* the rows without a bin in none; avg_wpm is <<>> for the NaN of an empty bin
TimeWpmStats(df_sorted) ==
    [j \in 1..Len(bins) |->
        LET in_bin == {i \in 1..Len(df_sorted) : TimeBinColumn(df_sorted)[i] = j}
            wpm == [i \in 1..Len(df_sorted) |->
                       IF i \in in_bin THEN df_sorted[i].wpm ELSE 0]
        IN  [time_bin |-> labels[j],
             avg_wpm |-> IF in_bin = {} THEN <<>>
                         ELSE <<Round2(SumSeq(wpm), Cardinality(in_bin))>>,
             count |-> Cardinality(in_bin)]]

\* time_wpm_stats[time_wpm_stats['count'] >= 5]
ChartedBins(stats) == SelectSeq(stats, LAMBDA b : b.count >= MinBinCount)

\* The handler.  figure_ok is whether plotly accepts a frame without bars
\* (its y range is then NaN); an exception becomes the handler's 500.
TimeBetweenRaces(c, figure_ok) ==
    /\ client_pc[c] = "idle"
    /\ IF df_global = <<>>
       THEN response' = [response EXCEPT ![c] = <<NoData("time-between-races")>>]
       ELSE \E bars \in {ChartedBins(TimeWpmStats(SortBy(df_global[1], "datetime_utc")))} :
               IF bars = <<>> /\ ~figure_ok
               THEN response' = [response EXCEPT ![c] =
                       <<HTTPException(500, "time-between-races", "Error generating chart")>>]
               ELSE \E w \in {calculate_insights_with_fallback(df_global[1],
                                                               "time-between-races", <<>>)} :
                       response' = [response EXCEPT ![c] =
                           <<Ok("time-between-races",
                                [bars |-> bars, insights |-> w.value.insights,
                                 has_insights |-> w.value.has_insights])>>]
    /\ UNCHANGED <<df_global, client_pc, pending, supplied, loaded_ok, engineVars>>

\* The longest free timeline tried, in gaps
MaxRestGaps == 2

\* Gaps at each bin edge and a second past it
RestGaps ==
    UNION {{bins[j] * SecondsPerHour, bins[j] * SecondsPerHour + 1} : j \in 1..Len(bins)}

\* Every timeline of up to MaxRestGaps gaps, and the timelines of
\* MinBinCount equal gaps, which fill one bin enough to chart it
RestTimelines ==
    UNION {[1..n -> RestGaps] : n \in 0..MaxRestGaps}
        \cup {[k \in 1..MinBinCount |-> g] : g \in RestGaps}

RestDatasets ==
    {process_race_data(TimingRows(gaps, asc)) : gaps \in RestTimelines, asc \in BOOLEAN}

RestInit ==
    /\ df = <<>>
    /\ df_entry = <<>>
    /\ chart_type = "none"
    /\ call_pc = "unused"
    /\ result = <<>>
    /\ ran = <<>>
    /\ df_global \in {<<d>> : d \in RestDatasets} \cup {<<>>}
    /\ client_pc = [c \in Clients |-> "idle"]
    /\ pending = [c \in Clients |-> <<>>]
    /\ supplied = [c \in Clients |-> <<>>]
    /\ loaded_ok = (df_global # <<>>)
    /\ response = [c \in Clients |-> <<>>]

\* One client suffices: the handler writes nothing but the response
RestNext == \E figure_ok \in BOOLEAN : TimeBetweenRaces("c1", figure_ok)

SpecRest == RestInit /\ [][RestNext]_vars

-----------------------------------------------------------------------------
(* Properties of the rest-interval bins (SpecRest).                        *)

\* The eight intervals in hours, as <<lower, upper, label>>; 0 for no upper
RestIntervals ==
    {<<0, 1, "0-1h">>, <<1, 3, "1-3h">>, <<3, 6, "3-6h">>, <<6, 12, "6-12h">>,
     <<12, 24, "12-24h">>, <<24, 48, "24-48h">>, <<48, 168, "48h-1wk">>,
     <<168, 0, "1wk+">>}

\* x seconds lies in the interval, open on the left and closed on the right
Within(x, iv) == iv[1] * 3600 < x /\ (iv[2] = 0 \/ x <= iv[2] * 3600)

BinLabel(j) == IF j = 0 THEN "NaN" ELSE labels[j]

\* The timestamps of the loaded dataset in ascending order, one per race
LoadedTimes == [k \in 1..Len(df_global[1]) |-> TimeAt(df_global[1], k)]

\* The gap before the k-th race in timestamp order, k >= 2
GapBefore(k) == LoadedTimes[k] - LoadedTimes[k - 1]

\* The bin the handler gives the k-th race in timestamp order
BinGiven(k) == TimeBinColumn(SortBy(df_global[1], "datetime_utc"))[k]

RestAnswered ==
    /\ response["c1"] # <<>>
    /\ response["c1"][1].status = 200

\* C12: the bins are open on the left and closed on the right: a gap is in
\* the bin labelled L exactly when it is above L's lower edge and at most its
\* upper edge, so a gap equal to an edge between two bins is in the lower
\* one, and a gap of exactly 24 hours is in "12-24h"; the bars of the
\* response count the gaps accordingly.
C12_RightClosedBins ==
    RestAnswered =>
        /\ \A k \in 2..Len(df_global[1]) :
              /\ \A iv \in RestIntervals :
                    (BinLabel(BinGiven(k)) = iv[3]) <=> Within(GapBefore(k), iv)
              /\ GapBefore(k) = 24 * 3600 => BinLabel(BinGiven(k)) = "12-24h"
        /\ \A iv \in RestIntervals :
              LET members == {k \in 2..Len(df_global[1]) : Within(GapBefore(k), iv)}
                  shown == {b \in 1..Len(response["c1"][1].body.bars) :
                               response["c1"][1].body.bars[b].time_bin = iv[3]}
              IN  /\ Cardinality(members) >= 5 <=> shown # {}
                  /\ \A b \in shown :
                        response["c1"][1].body.bars[b].count = Cardinality(members)

\* Races a day apart to the second follow one another, then one a day and a
\* second later: the first gap is in 12-24h, the second in 24-48h
C12_Witness ==
    /\ RestAnswered
    /\ Len(df_global[1]) = 3
    /\ GapBefore(2) = 86400
    /\ GapBefore(3) = 86401
    /\ BinLabel(BinGiven(2)) = "12-24h"
    /\ BinLabel(BinGiven(3)) = "24-48h"

\* Six races exactly 24 hours apart: the one bar is 12-24h with 5 races
C12_WitnessBar ==
    /\ RestAnswered
    /\ Len(response["c1"][1].body.bars) = 1
    /\ response["c1"][1].body.bars[1].time_bin = "12-24h"
    /\ response["c1"][1].body.bars[1].count = 5
    /\ \A k \in 2..Len(df_global[1]) : GapBefore(k) = 86400

\* C13 (as claimed): every gap between two consecutive races in timestamp
\* order, a gap of zero included, is given one of the eight bins, so the race
\* after it is counted in exactly one bin's aggregate.
C13_EveryGapBinned ==
    RestAnswered =>
        /\ \A k \in 2..Len(df_global[1]) : BinGiven(k) \in 1..Len(bins)
        /\ \A k \in 2..Len(df_global[1]) :
              Cardinality({j \in 1..Len(bins) : InBin(GapBefore(k), j)}) = 1

-----------------------------------------------------------------------------
(* One call of accuracy-by-rank around the accuracy thresholds             *)
(* (SpecAccuracy).                                                         *)

\* Accuracies below, at and above 0.90 and 0.93
AccuracyValues ==
    {LowAccuracy - 10, LowAccuracy, WinAccuracy - 1, WinAccuracy, WinAccuracy + 20}

AccuracyRows ==
    {ProcessRow(RawRow(0, 60 + 10 * (4 - rank), accuracy, rank, 3, 1, 889200)) :
        rank \in 1..3, accuracy \in AccuracyValues}

AccuracyDatasets ==
    {Numbered(rs, asc) : rs \in RowSeqs(AccuracyRows, MaxRows), asc \in BOOLEAN}

AccuracyInit == EngineInitOn(AccuracyDatasets, {"accuracy-by-rank"})
SpecAccuracy == AccuracyInit /\ [][EngineNext]_vars

AccuracyReturned == Returned_ /\ chart_type = "accuracy-by-rank"
WinsOf(d) == {i \in 1..Len(d) : d[i].rank = 1}

\* C15: when every rank-1 race has accuracy >= 0.93, accuracy-by-rank reports
\* 0 exceptions and as many wins above the threshold as there are wins.
C15_NoExceptions ==
    (AccuracyReturned /\ \A i \in WinsOf(df_entry) : df_entry[i].accuracy >= 930) =>
        /\ ~ran[1].raised
        /\ Insights[2] = S("When accuracy drops below 90%, you rarely win ({} exceptions)",
                           <<0>>)
        /\ Insights[6] = S("Winning accuracy threshold: 93% minimum ({}/{} wins above this)",
                           <<Cardinality(WinsOf(df_entry)), Cardinality(WinsOf(df_entry))>>)

\* A win at exactly 0.93 beside a loss at 0.89
C15_Witness ==
    /\ AccuracyReturned
    /\ Len(df_entry) = 2
    /\ \E i, j \in 1..2 :
          /\ df_entry[i].rank = 1 /\ df_entry[i].accuracy = 930
          /\ df_entry[j].rank > 1 /\ df_entry[j].accuracy = 890
    /\ Insights[2].args = <<0>>
    /\ Insights[6].args = <<1, 1>>

-----------------------------------------------------------------------------
(* One call of wpm-distribution on small value lists (SpecMode).           *)

\* The longest value list tried
MaxModeRows == 3

\* Over the range 40..70 a bin is 2 WPM wide: 40 and 41 share the first bin,
\* 42 opens the second, 55 is in the middle, 70 in the last
ModeValues == {40, 41, 42, 55, 70}

ModeRows(wpms) ==
    [i \in 1..Len(wpms) |-> ProcessRow(RawRow(i, wpms[i], 950, 2, 3, 1, 889200 + 60 * i))]

ModeDatasets == {ModeRows(wpms) : wpms \in UNION {[1..n -> ModeValues] : n \in 2..MaxModeRows}}

ModeInit == EngineInitOn(ModeDatasets, {"wpm-distribution"})
SpecMode == ModeInit /\ [][EngineNext]_vars

ModeReturned == Returned_ /\ chart_type = "wpm-distribution" /\ ~ran[1].raised

\* The bijections of 1..n
Perms(n) == {f \in [1..n -> 1..n] : \A i, j \in 1..n : f[i] = f[j] => i = j}

\* d with its rows in the order f
Permuted(d, f) == [i \in 1..Len(d) |-> d[f[i]]]

\* How many rows of d have their WPM in the j-th (from 1) of 15 equal bins
\* over d's range lo..hi (lo < hi), the last bin taking hi
CountInBin(d, lo, hi, j) ==
    Cardinality({i \in 1..Len(d) :
        /\ 15 * (d[i].wpm - lo) >= (j - 1) * (hi - lo)
        /\ \/ 15 * (d[i].wpm - lo) < j * (hi - lo)
           \/ j = 15 /\ d[i].wpm = hi})

\* The lowest of the fullest bins
FullestBin(d, lo, hi) ==
    CHOOSE j \in 1..15 :
        /\ \A k \in 1..15 : CountInBin(d, lo, hi, k) <= CountInBin(d, lo, hi, j)
        /\ \A k \in 1..(j - 1) : CountInBin(d, lo, hi, k) < CountInBin(d, lo, hi, j)

\* C16: the mode range reported by wpm-distribution is that of the fullest of
\* 15 equal-width bins over the value range, the lowest when several are as
\* full, and is the same for every permutation of the rows.
C16_ModeUnderPermutation ==
    ModeReturned =>
        /\ \A f \in Perms(Len(df_entry)) :
              \E o \in {calculate_insights_with_fallback(Permuted(df_entry, f),
                                                         "wpm-distribution", <<>>)} :
                  /\ ~o.raised
                  /\ o.value.insights[2] = Insights[2]
        /\ \E lo \in {df_entry[i].wpm : i \in 1..Len(df_entry)} :
           \E hi \in {df_entry[i].wpm : i \in 1..Len(df_entry)} :
              /\ \A i \in 1..Len(df_entry) : lo <= df_entry[i].wpm /\ df_entry[i].wpm <= hi
              /\ lo < hi =>
                    \E j \in {FullestBin(df_entry, lo, hi)} :
                        /\ Insights[2].args[1] * 15 = (15 * lo + (j - 1) * (hi - lo)) * Insights[2].args[2]
                        /\ Insights[2].args[3] * 15 = (15 * lo + j * (hi - lo)) * Insights[2].args[4]

\* 70, 41, 40: the first bin (40-42) holds two races and is the mode, with
\* the largest value listed first
C16_Witness ==
    /\ ModeReturned
    /\ Column(df_entry, "wpm") = <<70, 41, 40>>
    /\ Insights[2].args[1] = 40 * Insights[2].args[2]
    /\ Insights[2].args[3] = 42 * Insights[2].args[4]


-----------------------------------------------------------------------------
(* The sizes of the lists returned.                                        *)

-----------------------------------------------------------------------------
(* top-texts on races over a few texts (SpecTexts).                        *)

MaxTextRows == 3
TextIds == 1..3
TextWpm == {50, 60}

TextRows ==
    {ProcessRow(RawRow(0, wpm, 950, 2, 3, text_id, 889200)) :
        text_id \in TextIds, wpm \in TextWpm}

TextDatasets ==
    {Numbered(rs, asc) : rs \in RowSeqs(TextRows, MaxTextRows), asc \in BOOLEAN}

TextsInit == EngineInitOn(TextDatasets, {"top-texts"})
SpecTexts == TextsInit /\ [][EngineNext]_vars

TextsReturned ==
    /\ Returned_ /\ chart_type = "top-texts"
    /\ ~ran[1].raised /\ ran[1].path = "computed"

TextIdsOf(d) == {d[i].text_id : i \in 1..Len(d)}
RacesOn(d, text_id) == {i \in 1..Len(d) : d[i].text_id = text_id}
WpmSumOn(d, text_id) == WpmOver(d, RacesOn(d, text_id))

\* text a is practised at least as often as / averages at least as fast as b
AsPractisedAs(d, a, b) == Cardinality(RacesOn(d, a)) >= Cardinality(RacesOn(d, b))
AsFastAs(d, a, b) ==
    WpmSumOn(d, a) * Cardinality(RacesOn(d, b)) >=
        WpmSumOn(d, b) * Cardinality(RacesOn(d, a))

\* The smallest text id of d that is extreme under the comparison Geq
FirstExtreme(d, Geq(_, _, _)) ==
    CHOOSE a \in TextIdsOf(d) :
        /\ \A b \in TextIdsOf(d) : Geq(d, a, b)
        /\ \A b \in TextIdsOf(d) : (\A c \in TextIdsOf(d) : Geq(d, b, c)) => a <= b

Slower(d, a, b) == AsFastAs(d, b, a)

\* C20: in the grouped view over text ids, a tie for a reported extreme (most
\* practised, best average, worst average) resolves to the first of the tied
\* groups in ascending order of the text id.
C20_TiesToFirstKey ==
    TextsReturned =>
        /\ Insights[1].args[1] = FirstExtreme(df_entry, AsPractisedAs)
        /\ Insights[2].args[1] = FirstExtreme(df_entry, AsFastAs)
        /\ Insights[3].args[1] = FirstExtreme(df_entry, Slower)


-----------------------------------------------------------------------------
(* frequent-texts-improvement on races over two texts (SpecFrequent).      *)

MaxFrequentRows == 10
FrequentIds == 1..2
FrequentPatterns == 1..3

\* The races of a file: race i is on text ids[i], typed at a speed that moves
\* up and down with i
FrequentRaw(ids, p, asc) ==
    [j \in 1..Len(ids) |->
        LET i == IF asc THEN j ELSE Len(ids) + 1 - j
        IN  RawRow(i, 40 + 5 * ((i * p) % 5), 950, 2, 3, ids[i], 889200 + 60 * i)]

\* What process_race_data makes of the files, listed in either direction
FrequentDatasets ==
    {process_race_data(FrequentRaw(ids, p, asc)) :
        ids \in RowSeqs(FrequentIds, MaxFrequentRows),
        p \in FrequentPatterns, asc \in BOOLEAN}

FrequentInit == EngineInitOn(FrequentDatasets, {"frequent-texts-improvement"})
SpecFrequent == FrequentInit /\ [][EngineNext]_vars

FrequentCalled == call_pc # "ready" /\ chart_type = "frequent-texts-improvement"

\* The texts of d with at least five races
FiveTimes(d) == {t \in TextIdsOf(d) : Cardinality(RacesOn(d, t)) >= 5}

\* The speed of the race of d numbered n
WpmOfRace(d, n) == d[CHOOSE i \in 1..Len(d) : d[i].race_num = n].wpm
FirstRaceOn(d, t) ==
    CHOOSE n \in {d[i].race_num : i \in RacesOn(d, t)} :
        \A i \in RacesOn(d, t) : n <= d[i].race_num
LastRaceOn(d, t) ==
    CHOOSE n \in {d[i].race_num : i \in RacesOn(d, t)} :
        \A i \in RacesOn(d, t) : n >= d[i].race_num

\* 100 * (last - first) / first, as <<numerator, denominator>>
GainOn(d, t) ==
    <<100 * (WpmOfRace(d, LastRaceOn(d, t)) - WpmOfRace(d, FirstRaceOn(d, t))),
      WpmOfRace(d, FirstRaceOn(d, t))>>

\* The sum of the gains of the texts T, as <<numerator, denominator>>
RECURSIVE GainSum(_, _)
GainSum(d, T) ==
    IF T = {} THEN <<0, 1>>
    ELSE LET t == CHOOSE x \in T : TRUE
             g == GainOn(d, t)
             r == GainSum(d, T \ {t})
         IN  <<g[1] * r[2] + r[1] * g[2], g[2] * r[2]>>

\* C21: frequent-texts-improvement never raises; it answers with its own
\* "need more repeated texts" list exactly when no text has five attempts;
\* otherwise the average improvement is the mean, over exactly the texts with
\* at least five attempts, of the change from the text's first race to its
\* last race in race order, relative to the first, and the best gain is the
\* largest of these.
C21_FrequentTexts ==
    FrequentCalled =>
        /\ Returned_ /\ ~ran[1].raised
        /\ (ran[1].path = "need_more") <=> (FiveTimes(df_entry) = {})
        /\ FiveTimes(df_entry) = {} =>
              /\ Insights[1] = S("Need more repeated texts for analysis", <<>>)
              /\ Insights[4] = S("5+ attempts needed per text", <<>>)
              /\ result[1].has_insights
        /\ FiveTimes(df_entry) # {} =>
              /\ \E sum \in {GainSum(df_entry, FiveTimes(df_entry))} :
                    RatEq(Insights[1].args[1], Insights[1].args[2],
                          sum[1], sum[2] * Cardinality(FiveTimes(df_entry)))
              /\ \E t \in FiveTimes(df_entry) :
                    /\ Insights[2].args = GainOn(df_entry, t)
                    /\ \A u \in FiveTimes(df_entry) :
                          ~RatLess(GainOn(df_entry, t)[1], GainOn(df_entry, t)[2],
                                   GainOn(df_entry, u)[1], GainOn(df_entry, u)[2])

\* two texts with five races each, interleaved, with different gains, and a
\* file listed latest race first
C21_Witness ==
    /\ FrequentCalled /\ Returned_
    /\ Cardinality(FiveTimes(df_entry)) = 2
    /\ GainOn(df_entry, 1)[1] > 0 /\ GainOn(df_entry, 2)[1] < 0
    /\ df_entry[1].text_id # df_entry[2].text_id
    /\ Insights[2].args = GainOn(df_entry, 1)

\* a text with four attempts only
C21_WitnessFour ==
    /\ FrequentCalled /\ Returned_
    /\ ran[1].path = "need_more"
    /\ \E t \in TextIdsOf(df_entry) : Cardinality(RacesOn(df_entry, t)) = 4


-----------------------------------------------------------------------------
(* Loads and requests over time (Spec).                                    *)

RequestEndpoints == ServiceViews \cup {"/stats"}
LoadEndpoints == {"/upload-data", "/use-sample-data"}

\* C22: as long as no upload-data or use-sample-data request has been
\* answered with success, every answer to a /stats or /charts/* request is
\* the error 400 "No data uploaded", which carries no insights.
C22_NoDataUntilLoaded ==
    ~loaded_ok =>
        \A c \in Clients :
            (response[c] # <<>> /\ response[c][1].endpoint \in RequestEndpoints)
                => response[c][1] = NoData(response[c][1].endpoint)

\* Client c is answered in this step by a load endpoint, with an error
LoadFailsFor(c) ==
    /\ response'[c] # <<>>
    /\ response'[c][1].endpoint \in LoadEndpoints
    /\ response'[c][1].status # 200
    /\ response'[c] # response[c] \/ client_pc'[c] # client_pc[c]

\* C23: a step in which an upload-data or use-sample-data request is answered
\* with an error (400 or 500) leaves df_global as it was.
C23_FailedLoadKeepsDataset ==
    [][(\E c \in Clients : LoadFailsFor(c)) => df_global' = df_global]_vars

\* The frames a load completing in this step can store
Storable ==
    {process_race_data(pending[c][1].rows) :
        c \in {v \in Clients : client_pc[v] = "reading" /\ client_pc'[v] = "idle"}}
    \cup {process_race_data(sample[1]) : sample \in ServiceSamples \ {<<>>}}

\* Client c is answered in this step by /stats or a chart endpoint
Answered(c) ==
    /\ response'[c] # response[c]
    /\ response'[c][1].endpoint \in RequestEndpoints

C25_OneDatasetPerRequest ==
    \A c \in Clients :
        (/\ response[c] # <<>>
         /\ response[c][1].status = 200
         /\ response[c][1].endpoint \in ServiceViews)
        => response[c][1].body =
              AnswerFrom(response[c][1].body.figure.drawn_from, response[c][1].endpoint)

\* a chart answered while another client's upload of different data is
\* suspended in file.read()
C25_Witness ==
    /\ response["c1"] # <<>>
    /\ response["c1"][1].status = 200
    /\ response["c1"][1].endpoint = "wpm-distribution"
    /\ client_pc["c2"] = "reading"
    /\ pending["c2"][1].parses
    /\ process_race_data(pending["c2"][1].rows) # response["c1"][1].body.figure.drawn_from
    /\ Len(response["c1"][1].body.figure.drawn_from) > 0


-----------------------------------------------------------------------------
(* cumulative-accuracy on short datasets (SpecCumulative).                 *)

MaxCumulativeRows == 5
CumulativeAccuracies == {900, 950, 960}

CumulativeRows ==
    {ProcessRow(RawRow(0, 60, accuracy, 2, 3, 1, 889200)) :
        accuracy \in CumulativeAccuracies}

CumulativeDatasets ==
    {<<>>} \cup
    {Numbered(rs, asc) : rs \in RowSeqs(CumulativeRows, MaxCumulativeRows), asc \in BOOLEAN}

CumulativeInit == EngineInitOn(CumulativeDatasets, {"cumulative-accuracy"})
SpecCumulative == CumulativeInit /\ [][EngineNext]_vars

CumulativeCalled == call_pc # "ready" /\ chart_type = "cumulative-accuracy"

\* C26: on a dataset of fewer than 4 rows the cumulative-accuracy routine
\* raises before it has built a sentence, and the call returns the three
\* fallback sentences with has_insights = FALSE.
C26_ShortDatasetFallsBack ==
    (CumulativeCalled /\ Len(df_entry) < 4) =>
        /\ Returned_
        /\ ran[1].routine = "cumulative-accuracy"
        /\ ran[1].raised
        /\ ran[1].built = <<>>
        /\ Insights = Fallback(df_entry)
        /\ Len(Insights) = 3
        /\ result[1].has_insights = FALSE

\* three rows
C26_Witness ==
    /\ CumulativeCalled /\ Returned_
    /\ Len(df_entry) = 3
    /\ ran[1].raised
    /\ Insights[2] = S("Showing {} races", <<3>>)

\* C27: whenever cumulative-accuracy says "Accuracy plateau reached at race
\* #k", k is a position of the dataset, 0 <= k <= n.
C27_PlateauRaceNumber ==
    (CumulativeCalled /\ Returned_ /\ ~ran[1].raised) =>
        (Insights[5].text = "Accuracy plateau reached at race #{}" =>
            /\ Insights[5].args[1] >= 0
            /\ Insights[5].args[1] <= Len(df_entry))


-----------------------------------------------------------------------------
(* The rows of a recorded session (SpecTiming).                            *)

DistinctTimes(d) == \A i, j \in 1..Len(d) : d[i].datetime_utc = d[j].datetime_utc => i = j

\* The speed of the k-th race of d in timestamp order, timestamps distinct
WpmAtPlace(d, k) == d[CHOOSE i \in 1..Len(d) : d[i].datetime_utc = TimeAt(d, k)].wpm

\* last minus first speed of each run of SessionRuns(d), in order
ExpectedImprovements(d) ==
    LET runs == SessionRuns(d)
        firsts == SortedSeqOf({r[1] : r \in runs})
    IN  [j \in 1..Len(firsts) |->
            LET r == CHOOSE r \in runs : r[1] = firsts[j]
            IN  WpmAtPlace(d, r[2]) - WpmAtPlace(d, r[1])]

\* C28: the improvement of the k-th recorded session is the speed of that
\* session's last race minus the speed of its first race, also when sessions
\* of a single race lie before or between the recorded ones; the sentence on
\* same-session improvement carries their mean.
C28_SessionRows ==
    (TimingComputed /\ DistinctTimes(df_entry)) =>
        \E df_sorted \in {SortBy(df_entry, "datetime_utc")} :
        \E expected \in {ExpectedImprovements(df_entry)} :
            /\ SessionImprovements(df_sorted, SessionRaces(TimeDiffs(df_sorted)),
                                   Len(SessionRaces(TimeDiffs(df_sorted)))) = expected
            /\ Insights[5].text = "Same-session races improve by {} WPM on average"
                  => Insights[5].args = <<SumSeq(expected), Len(expected)>>


-----------------------------------------------------------------------------
(* accuracy-distribution around its tier edges (SpecTiers).                *)

MaxTierRows == 3
TierAccuracies == {890, 900, 949, 950, 951, 1000}

TierRows ==
    {ProcessRow(RawRow(0, 60, accuracy, 2, 3, 1, 889200)) : accuracy \in TierAccuracies}

TierDatasets ==
    {Numbered(rs, asc) : rs \in RowSeqs(TierRows, MaxTierRows), asc \in BOOLEAN}

TiersInit == EngineInitOn(TierDatasets, {"accuracy-distribution"})
SpecTiers == TiersInit /\ [][EngineNext]_vars

TiersReturned ==
    /\ Returned_ /\ chart_type = "accuracy-distribution"
    /\ ~ran[1].raised

\* C29: the share of races reported as "95%+ accuracy" is that of the races
\* of the 95-99% tier and the perfect races together.
C29_TiersAgree ==
    TiersReturned =>
        Insights[2].args[1] * Len(df_entry) =
            100 * (Insights[6].args[2] + Insights[3].args[1]) * Insights[2].args[2]

-----------------------------------------------------------------------------
(* rank-distribution over fields of several sizes (SpecRanks).             *)

MaxRankRows == 2
RankFields == {<<1, 2>>, <<2, 2>>, <<3, 4>>, <<4, 4>>, <<1, 5>>, <<5, 6>>, <<6, 6>>}

\* f[1] is the rank, f[2] the number of racers
RankRows == {ProcessRow(RawRow(0, 60, 950, f[1], f[2], 1, 889200)) : f \in RankFields}

RankDatasets ==
    {Numbered(rs, asc) : rs \in RowSeqs(RankRows, MaxRankRows), asc \in BOOLEAN}

RanksInit == EngineInitOn(RankDatasets, {"rank-distribution"})
SpecRanks == RanksInit /\ [][EngineNext]_vars

RanksReturned ==
    /\ Returned_ /\ chart_type = "rank-distribution"
    /\ ~ran[1].raised

FinishedLast(d) == {i \in 1..Len(d) : d[i].rank = d[i].num_racers}
FourOpponents(d) == {i \in 1..Len(d) : d[i].num_racers >= 5}

\* C30: "Last place finishes" is the share of races with rank = num_racers,
\* and "Competitive races (4+ opponents)" the number of races with
\* num_racers >= 5.
C30_LastAndCompetitive ==
    RanksReturned =>
        /\ Insights[4].args[1] * Len(df_entry) =
              100 * Cardinality(FinishedLast(df_entry)) * Insights[4].args[2]
        /\ Insights[6].args[1] = Cardinality(FourOpponents(df_entry))

=============================================================================
